---- MODULE Spec2Model ----
(***************************************************************************)
(* Blog automation: the publication workflow of BlogService, the quality   *)
(* gate of ComprehensiveQualityChecker and the job records kept by         *)
(* DatabaseService.                                                        *)
(*                                                                         *)
(* Conventions.                                                            *)
(*  - Python None is NoId / NoTime (0) for integers and timestamps, the    *)
(*    string NoneStr for optional strings, and the empty sequence for an   *)
(*    optional object (<<x>> is the object x).                             *)
(*  - A quality score is a float in the code (similarity / 2); the model   *)
(*    carries every score in half points, Pts(n) being n points.           *)
(*  - An exception is its description str(e); the empty description ""     *)
(*    is one of the descriptions a collaborator can fail with.             *)
(***************************************************************************)
EXTENDS Integers, Sequences, FiniteSets, TLC

VARIABLES
    settings,     \* src/core/config.py Settings: the process-wide configuration
    qc_content,   \* the PostContent handed to one check_quality call
    qc_responses, \* what the four sub-checkers answer in that call
    qc_result,    \* what that check_quality call returned (<<>> before the call)
    run,          \* run[i]: the frame of the i-th BlogService call (its locals)
    store,        \* the generation_jobs table: job id -> row
    wp,           \* the remote CMS: categories, tags, media and posts it holds
    next_id,      \* the next job id uuid4 hands out (ids are never repeated)
    clock,        \* datetime.now(): advances when a job takes its timestamps
    query,        \* the frame of a DatabaseService query called by a client
    saved,        \* history: per job id, the job last given to save_job
    gen           \* the frame of a generate_content call made on its own

qvars == <<settings, qc_content, qc_responses, qc_result>>
wvars == <<run, store, wp, next_id, clock>>
dvars == <<query, saved>>
gvars == <<gen>>
vars == <<settings, qc_content, qc_responses, qc_result, run, store, wp, next_id, clock,
          query, saved, gen>>

(***************************************************************************)
(* Bounds of the model.                                                    *)
(***************************************************************************)
\* settings.min_word_count and settings.max_word_count are configuration
\* (defaults 500 and 3000); the model configures small thresholds so that
\* bodies below, between and above them fit in MaxHtmlLen tokens.
MinWordCount == 2
MaxWordCount == 3
\* the longest body, in tokens
MaxHtmlLen == 5
\* the most findings one sub-checker returns
MaxFindings == 4

NoId == 0
NoTime == 0
NoneStr == "<None>"

Pts(n) == 2 * n

Max(a, b) == IF a >= b THEN a ELSE b
Min(a, b) == IF a <= b THEN a ELSE b

\* n copies of x, as issues.extend([...]) appends them
Rep(x, n) == [k \in 1..n |-> x]

(***************************************************************************)
(* Strings whose length the SEO check reads.                               *)
(***************************************************************************)
ShortExcerpt == "a short description"
LongExcerpt == "a description of the post that is long enough for search engines"
ShortSlug == "test-topic"
LongSlug == "a-slug-that-is-much-longer-than-the-fifty-characters-allowed"

(***************************************************************************)
(* ComprehensiveQualityChecker._count_words                                *)
(* The body is a sequence of tokens: "tag" is a markup tag, "w" a          *)
(* non-blank character run, "s" whitespace. get_text() drops the tags and  *)
(* joins what is left; split() counts the maximal runs of non-blank text.  *)
(***************************************************************************)
get_text(html) == SelectSeq(html, LAMBDA t : t # "tag")

RECURSIVE split_count(_)
split_count(text) ==
    IF text = <<>> THEN 0
    ELSE IF Head(text) = "s" THEN split_count(Tail(text))
    ELSE IF Len(text) >= 2 /\ text[2] = "w" THEN split_count(Tail(text))
    ELSE 1 + split_count(Tail(text))

_count_words(html_content) == split_count(get_text(html_content))

(***************************************************************************)
(* ComprehensiveQualityChecker.check_quality                               *)
(* content: [content_html, excerpt, slug, images]                          *)
(* responses: [spelling, grammar, links] the number of findings each       *)
(*   sub-checker returns, [plagiarism] the similarity in 0..100, [raises]  *)
(*   the sub-checker that raises instead of answering ("none" for none).   *)
(* The result is [raised, exc, passed, score, issues, suggestions, calls]; *)
(* calls lists the sub-checkers called, in order.                          *)
(***************************************************************************)
WordCountCheck_Inclusive(word_count, cfg) ==
    IF word_count <= cfg.min_word_count
    THEN [issues |-> <<"too_short">>, debit |-> Pts(20)]
    ELSE IF word_count >= cfg.max_word_count
    THEN [issues |-> <<"too_long">>, debit |-> Pts(10)]
    ELSE [issues |-> <<>>, debit |-> 0]

WordCountCheck(word_count, cfg) ==
    IF word_count < cfg.min_word_count
    THEN [issues |-> <<"too_short">>, debit |-> Pts(20)]
    ELSE IF word_count > cfg.max_word_count
    THEN [issues |-> <<"too_long">>, debit |-> Pts(10)]
    ELSE [issues |-> <<>>, debit |-> 0]

SpellingCheck(responses, cfg) ==
    IF cfg.grammar_check_enabled
    THEN [issues |-> Rep("spelling", responses.spelling),
          debit |-> responses.spelling * Pts(5)]
    ELSE [issues |-> <<>>, debit |-> 0]

\* a grammar check that debits what the spelling check debits
GrammarCheck_FivePerFinding(responses) ==
    [issues |-> Rep("grammar", responses.grammar),
     debit |-> responses.grammar * Pts(5)]

GrammarCheck(responses) ==
    [issues |-> Rep("grammar", responses.grammar),
     debit |-> responses.grammar * Pts(3)]

\* similarity_score / 2 points is similarity_score half points
PlagiarismCheck(responses, cfg) ==
    IF cfg.plagiarism_check_enabled /\ responses.plagiarism > 50
    THEN [issues |-> <<"similarity">>, debit |-> responses.plagiarism]
    ELSE [issues |-> <<>>, debit |-> 0]

\* a link check that debits no more than the whole score
LinkCheck_Capped(responses) ==
    [issues |-> Rep("broken_link", responses.links),
     debit |-> Min(Pts(100), responses.links * Pts(10))]

LinkCheck(responses) ==
    [issues |-> Rep("broken_link", responses.links),
     debit |-> responses.links * Pts(10)]

ExcerptCheck(content) ==
    IF content.excerpt = "" \/ Len(content.excerpt) < 50
    THEN [issues |-> <<"excerpt_short">>, debit |-> Pts(5)]
    ELSE [issues |-> <<>>, debit |-> 0]

SlugCheck(content) ==
    IF Len(content.slug) > 50
    THEN [issues |-> <<"slug_long">>, debit |-> Pts(3)]
    ELSE [issues |-> <<>>, debit |-> 0]

Suggestions(word_count, content) ==
    (IF word_count < 1000 THEN <<"add_content">> ELSE <<>>)
    \o (IF content.images = <<>> THEN <<"add_visuals">> ELSE <<>>)

\* one switch for both optional checks
SubCheckerCalls_OneSwitch(cfg) ==
    (IF cfg.grammar_check_enabled THEN <<"check_spelling">> ELSE <<>>)
    \o <<"check_grammar">>
    \o (IF cfg.grammar_check_enabled THEN <<"check_plagiarism">> ELSE <<>>)
    \o <<"check_links">>

\* the sub-checkers check_quality calls, in call order
SubCheckerCalls(cfg) ==
    (IF cfg.grammar_check_enabled THEN <<"check_spelling">> ELSE <<>>)
    \o <<"check_grammar">>
    \o (IF cfg.plagiarism_check_enabled THEN <<"check_plagiarism">> ELSE <<>>)
    \o <<"check_links">>

RECURSIVE IndexOf(_, _, _)
IndexOf(seq, x, k) ==
    IF k > Len(seq) THEN 0
    ELSE IF seq[k] = x THEN k
    ELSE IndexOf(seq, x, k + 1)

\* score before the clamp: 100 less every debit, never clamped on the way
RunningScore(content, responses, cfg) ==
    LET word_count == _count_words(content.content_html) IN
    Pts(100)
    - WordCountCheck(word_count, cfg).debit
    - SpellingCheck(responses, cfg).debit
    - GrammarCheck(responses).debit
    - PlagiarismCheck(responses, cfg).debit
    - LinkCheck(responses).debit
    - ExcerptCheck(content).debit
    - SlugCheck(content).debit

AllIssues(content, responses, cfg) ==
    LET word_count == _count_words(content.content_html) IN
    WordCountCheck(word_count, cfg).issues
    \o SpellingCheck(responses, cfg).issues
    \o GrammarCheck(responses).issues
    \o PlagiarismCheck(responses, cfg).issues
    \o LinkCheck(responses).issues
    \o ExcerptCheck(content).issues
    \o SlugCheck(content).issues

FinalScore_NoClamp(score) == Min(Pts(100), score)

\* final_score = max(0, min(100, score))
FinalScore(score) == Max(0, Min(Pts(100), score))

PassRule_ScoreOnly(final_score, issues) == final_score >= Pts(70)

\* passed = final_score >= 70 and len(issues) <= 3
PassRule(final_score, issues) == final_score >= Pts(70) /\ Len(issues) <= 3

\* a checker that swallows a sub-checker's failure and goes on
check_quality_CatchPerCheck(content, responses, cfg) ==
    LET issues == AllIssues(content, responses, cfg)
        final_score == FinalScore(RunningScore(content, responses, cfg))
    IN  [raised |-> FALSE, exc |-> NoneStr,
         passed |-> PassRule(final_score, issues),
         score |-> final_score,
         issues |-> issues,
         suggestions |-> Suggestions(_count_words(content.content_html), content),
         calls |-> SubCheckerCalls(cfg)]

check_quality(content, responses, cfg) ==
    LET calls == SubCheckerCalls(cfg)
        at == IndexOf(calls, responses.raises, 1)
        word_count == _count_words(content.content_html)
        issues == AllIssues(content, responses, cfg)
        final_score == FinalScore(RunningScore(content, responses, cfg))
    IN  IF at > 0
        THEN [raised |-> TRUE, exc |-> responses.raises, passed |-> FALSE,
              score |-> 0, issues |-> <<>>, suggestions |-> <<>>,
              calls |-> SubSeq(calls, 1, at)]
        ELSE [raised |-> FALSE, exc |-> NoneStr,
              passed |-> PassRule(final_score, issues),
              score |-> final_score,
              issues |-> issues,
              suggestions |-> Suggestions(word_count, content),
              calls |-> calls]

(***************************************************************************)
(* Configurations and bodies the model draws from.                         *)
(***************************************************************************)
SettingsSet ==
    [min_word_count : {MinWordCount}, max_word_count : {MaxWordCount},
     plagiarism_check_enabled : BOOLEAN, grammar_check_enabled : BOOLEAN,
     wordpress_url : {"https://blog.example"},
     default_category : {"AI"}, default_tags : {<<"AI">>}]

\* one body per word count 0..MaxHtmlLen, with markup and blanks in it
HtmlOfWords(n) ==
    <<"tag">> \o [k \in 1..(2 * n) |-> IF k % 2 = 1 THEN "w" ELSE "s"] \o <<"tag">>

HtmlSamples == {HtmlOfWords(n) : n \in 0..MaxHtmlLen}

(***************************************************************************)
(* The publication workflow.                                               *)
(*                                                                         *)
(* BlogService's methods are coroutines: a call runs until it awaits a     *)
(* collaborator or the job store, and other calls may run in between.      *)
(* run[i].pc names the call that the i-th invocation is awaiting; an       *)
(* action is that call taking place (succeeding or raising) followed by    *)
(* the code up to the next await.                                          *)
(***************************************************************************)
\* the invocations of BlogService the model follows; with more than one
\* they run concurrently
MaxRuns == 1

Runs == 1..MaxRuns

\* the topics callers publish
Topics == {"Test Topic"}

\* src/core/models.py ScheduleMode
Modes == {"draft", "publish", "schedule"}

\* src/core/models.py PostStatus
PostStatuses == {"draft", "publish", "future", "private"}

\* a timestamp a caller asks to schedule at
SomeTime == 9

AttributeErrorDesc == "'ScheduleInfo' object has no attribute 'datetime'"
StoreErrorDesc == "database is locked"
NotFoundDesc == "job not found"
InvalidStateDesc == "only failed jobs can be retried"

\* what a failing collaborator call raises: str(e) of its exception. An
\* exception may have an empty description (an httpx timeout has); the model
\* lets the generation call fail that way too.
ErrDescs(call) ==
    IF call = "generate_content" THEN {call \o " failed", ""}
    ELSE {call \o " failed"}

(***************************************************************************)
(* src/core/models.py ScheduleInfo: the fields are mode and scheduled_at.  *)
(* Reading any other attribute of the object raises AttributeError.        *)
(***************************************************************************)
ScheduleInfo(mode, scheduled_at) == [mode |-> mode, scheduled_at |-> scheduled_at]

HasAttr(obj, name) == name \in DOMAIN obj

\* src/core/models.py GenerationJob as create_and_publish_post constructs it
GenerationJob(id, topic, created_at, scheduled_at) ==
    [id |-> id, topic |-> topic, status |-> "started",
     created_at |-> created_at, scheduled_at |-> scheduled_at,
     completed_at |-> NoTime, wp_post_id |-> NoId,
     error_message |-> NoneStr, content |-> <<>>]

\* src/core/models.py ImageInfo as create_featured_image returns it
FeaturedImage(topic) ==
    [path |-> "images/featured.webp", alt |-> topic,
     use_as_featured |-> TRUE, wp_media_id |-> NoId]

_get_wp_status_AlwaysDraft(schedule_mode) == "draft"

\* BlogService._get_wp_status
_get_wp_status(schedule_mode) ==
    IF schedule_mode = "publish" THEN "publish"
    ELSE IF schedule_mode = "schedule" THEN "future"
    ELSE "draft"

\* python-slugify on the names the model uses
slugify(name) ==
    CASE name = "AI" -> "ai"
      [] name = "A" -> "a"
      [] name = "B" -> "b"
      [] name = "Test Topic" -> "test-topic"
      [] name = "Other Topic" -> "other-topic"
      [] OTHER -> name

(***************************************************************************)
(* The frame of an invocation that has not been made yet.                  *)
(***************************************************************************)
IdleFrame ==
    [pc |-> "idle", kind |-> "none", retry_of |-> NoId, seen_status |-> "none",
     topic |-> "", req_mode |-> "draft",
     schedule_info |-> ScheduleInfo("draft", NoTime),
     categories |-> <<>>, tags |-> <<>>, generate_image |-> TRUE,
     job |-> <<>>, content |-> <<>>, returned |-> <<>>,
     quality_result |-> <<>>,
     existing |-> <<>>, k |-> 0, wp_categories |-> <<>>, wp_tags |-> <<>>,
     featured_media_id |-> NoId, wp_post |-> <<>>, created_post |-> <<>>,
     exc |-> NoneStr, original |-> NoneStr, outcome |-> "none",
     faults |-> 0, last_save |-> "none",
     result |-> <<>>, calls |-> <<>>, created |-> <<>>,
     wp_status |-> "none", sub_raised |-> "none"]

(***************************************************************************)
(* What a value becomes in a column of the job table and back.             *)
(* A datetime is bound as its ISO text (sqlite3's adapter) and read back   *)
(* with datetime.fromisoformat; None is NULL (NoTime). The text of instant *)
(* t is the number IsoBase + t: texts order as their instants do, and no   *)
(* text is an instant of the model. The content is bound as its JSON       *)
(* (model_dump_json), in which the datetime it holds is ISO text, and read *)
(* back with json.loads into a PostContent.                                *)
(***************************************************************************)
IsoBase == 100

isoformat(t) == IF t = NoTime THEN NoTime ELSE IsoBase + t

fromisoformat(text) == text - IsoBase

model_dump_json(content) ==
    [content EXCEPT !.schedule.scheduled_at = isoformat(@)]

json_loads(content_json) ==
    [content_json EXCEPT !.schedule.scheduled_at =
        IF @ = NoTime THEN NoTime ELSE fromisoformat(@)]

\* The job table is a file that outlives the process. What earlier
\* invocations can have left in it: nothing, a job still `started` (its
\* last save failed), or a job `failed` at the construction of the post.
\* The row is what create_and_publish_post saves on those paths.
PersistedJob(topic, status, error_message) ==
    [id |-> 1, topic |-> topic, status |-> status,
     created_at |-> isoformat(1), scheduled_at |-> NoTime, completed_at |-> NoTime,
     wp_post_id |-> NoId, error_message |-> error_message,
     content_json |-> <<>>]

PersistedStores ==
    {<<>>,
     1 :> PersistedJob("Test Topic", "started", NoneStr),
     1 :> PersistedJob("Other Topic", "failed", AttributeErrorDesc)}

EmptyRemote == [categories |-> <<>>, tags |-> <<>>, media |-> <<>>, posts |-> <<>>]

\* the frame of a DatabaseService query that has not been called
IdleQuery ==
    [op |-> "none", pc |-> "idle", job_id |-> NoId, limit |-> 0, status |-> NoneStr,
     total_jobs |-> 0, status_counts |-> <<>>, interleaved |-> FALSE,
     result |-> <<>>]

\* the frame of a generate_content call that has not been made
IdleGen ==
    [pc |-> "idle", topic |-> "", schedule_info |-> <<>>, categories |-> <<>>,
     tags |-> <<>>, outline |-> <<>>, content_html |-> <<>>, seo_meta |-> <<>>,
     fell_back |-> FALSE, result |-> <<>>, exc |-> NoneStr]

\* no client of the store at work, no generator call on its own
DIdle ==
    /\ query = IdleQuery
    /\ saved = <<>>
    /\ gen = IdleGen

\* no invocation made yet; job id 1 and time 1 belong to the persisted job
WInitIdle ==
    /\ run = [i \in Runs |-> IdleFrame]
    /\ store = <<>>
    /\ wp = EmptyRemote
    /\ next_id = 2
    /\ clock = 2
    /\ DIdle

WInit ==
    /\ run = [i \in Runs |-> IdleFrame]
    /\ store \in PersistedStores
    /\ wp = EmptyRemote
    /\ next_id = 2
    /\ clock = 2
    /\ DIdle

\* bookkeeping of the model, not of the program: the calls the invocation
\* has made, how many of them raised, and how its last save_job call went
Called(f, call) == [f EXCEPT !.calls = Append(@, call)]
Fault(f) == [f EXCEPT !.faults = @ + 1]
\* and the creation calls it has issued: what kind of entity, for what name
Requested(f, kind, name) ==
    [f EXCEPT !.created = Append(@, [kind |-> kind, name |-> name])]
Saved(f, ok) ==
    IF ok THEN [f EXCEPT !.last_save = "ok"]
    ELSE [f EXCEPT !.last_save = "failed", !.faults = @ + 1]

\* the call raises to the caller of the BlogService method
RaiseToCaller(f, desc) ==
    [f EXCEPT !.pc = "done", !.outcome = "raised", !.exc = desc]

\* an except clause that gives up: nothing saved, the exception re-raised
Except_Abort(f, desc) ==
    [f EXCEPT !.pc = "done", !.outcome = "raised", !.exc = desc, !.original = desc]

Except_GenericMessage(f, desc) ==
    [f EXCEPT !.pc = "save_failed", !.exc = desc, !.original = desc,
              !.job = <<[@[1] EXCEPT !.status = "failed",
                                     !.error_message = "workflow failed"]>>]

Except_StatusOnly(f, desc) ==
    [f EXCEPT !.pc = "save_failed", !.exc = desc, !.original = desc,
              !.job = <<[@[1] EXCEPT !.status = "failed"]>>]

Except_NoSave(f, desc) ==
    [f EXCEPT !.pc = "done", !.outcome = "raised", !.exc = desc, !.original = desc,
              !.job = <<[@[1] EXCEPT !.status = "failed",
                                     !.error_message = desc]>>]

\* an except clause that stamps the failed job with a completion time
Except_Stamped(f, desc) ==
    [f EXCEPT !.pc = "save_failed", !.exc = desc, !.original = desc,
              !.job = <<[@[1] EXCEPT !.status = "failed",
                                     !.error_message = desc,
                                     !.completed_at = clock]>>]

\* create_and_publish_post, the except clause up to its save_job call:
\* an exception with description desc was raised inside the try
Except(f, desc) ==
    [f EXCEPT !.pc = "save_failed", !.exc = desc, !.original = desc,
              !.job = <<[@[1] EXCEPT !.status = "failed",
                                     !.error_message = desc]>>]

\* a workflow that runs a retry under the id of the job retried
StartWorkflow_ReuseId(f, kind, retry_of, topic, schedule_info, categories, tags, generate_image) ==
    LET g == [f EXCEPT !.kind = kind, !.retry_of = retry_of, !.topic = topic,
                       !.req_mode = schedule_info.mode,
                       !.schedule_info = schedule_info,
                       !.categories = categories, !.tags = tags,
                       !.generate_image = generate_image]
    IN  IF schedule_info.mode = "schedule" /\ ~HasAttr(schedule_info, "datetime")
        THEN RaiseToCaller(g, AttributeErrorDesc)
        ELSE [g EXCEPT !.pc = "save_started",
                       !.job = <<GenerationJob(IF kind = "retry" THEN retry_of
                                               ELSE next_id,
                                               topic, clock, NoTime)>>]

(***************************************************************************)
(* create_and_publish_post up to its first await: the job id, the job      *)
(* object. scheduled_at reads schedule_info.datetime when the mode is      *)
(* Schedule; this is before the try, so a failure goes to the caller.      *)
(***************************************************************************)
StartWorkflow(f, kind, retry_of, topic, schedule_info, categories, tags, generate_image) ==
    LET g == [f EXCEPT !.kind = kind, !.retry_of = retry_of, !.topic = topic,
                       !.req_mode = schedule_info.mode,
                       !.schedule_info = schedule_info,
                       !.categories = categories, !.tags = tags,
                       !.generate_image = generate_image]
    IN  IF schedule_info.mode = "schedule" /\ ~HasAttr(schedule_info, "datetime")
        THEN RaiseToCaller(g, AttributeErrorDesc)
        ELSE [g EXCEPT !.pc = "save_started",
                       !.job = <<GenerationJob(next_id, topic, clock,
                                    IF schedule_info.mode = "schedule"
                                    THEN schedule_info.datetime ELSE NoTime)>>]

\* whether the call started a job (took a job id and read the clock)
StartedJob(f) == f.job # <<>>

\* categories and tags are <<>> when the caller passes None
Publish(i, topic, schedule_info, categories, tags, generate_image) ==
    /\ run[i].pc = "idle"
    /\ LET f == StartWorkflow(run[i], "publish", NoId, topic, schedule_info,
                              categories, tags, generate_image)
       IN  /\ run' = [run EXCEPT ![i] = f]
           /\ next_id' = IF StartedJob(f) THEN next_id + 1 ELSE next_id
           /\ clock' = IF StartedJob(f) THEN clock + 1 ELSE clock
    /\ UNCHANGED <<store, wp>>

(***************************************************************************)
(* DatabaseService.save_job: INSERT OR REPLACE of the whole row, keyed by  *)
(* the job id. content_json is the serialised content, or NULL without.    *)
(***************************************************************************)
JobRow(job) ==
    [id |-> job.id, topic |-> job.topic, status |-> job.status,
     created_at |-> isoformat(job.created_at),
     scheduled_at |-> isoformat(job.scheduled_at),
     completed_at |-> isoformat(job.completed_at),
     wp_post_id |-> job.wp_post_id,
     error_message |-> job.error_message,
     content_json |-> IF job.content # <<>>
                      THEN <<model_dump_json(job.content[1])>> ELSE <<>>]

\* an upsert that keeps the stored value of a column the job leaves unset
save_job_Merge(table, job) ==
    LET new == JobRow(job) IN
    IF job.id \in DOMAIN table
    THEN LET old == table[job.id] IN
         (job.id :> [new EXCEPT
            !.scheduled_at = IF @ = NoTime THEN old.scheduled_at ELSE @,
            !.completed_at = IF @ = NoTime THEN old.completed_at ELSE @,
            !.wp_post_id = IF @ = NoId THEN old.wp_post_id ELSE @,
            !.error_message = IF @ = NoneStr THEN old.error_message ELSE @,
            !.content_json = IF @ = <<>> THEN old.content_json ELSE @]) @@ table
    ELSE (job.id :> new) @@ table

\* a save that rewrites the table as the one row it was given
save_job_Truncate(table, job) == (job.id :> JobRow(job))

save_job(table, job) == (job.id :> JobRow(job)) @@ table

\* DatabaseService.get_job: the row as a GenerationJob, <<>> when there is none
get_job(table, job_id) ==
    IF job_id \in DOMAIN table
    THEN LET row == table[job_id] IN
         <<[id |-> row.id, topic |-> row.topic, status |-> row.status,
            created_at |-> fromisoformat(row.created_at),
            scheduled_at |-> IF row.scheduled_at # NoTime
                             THEN fromisoformat(row.scheduled_at) ELSE NoTime,
            completed_at |-> IF row.completed_at # NoTime
                             THEN fromisoformat(row.completed_at) ELSE NoTime,
            wp_post_id |-> row.wp_post_id,
            error_message |-> row.error_message,
            content |-> IF row.content_json # <<>>
                        THEN <<json_loads(row.content_json[1])>> ELSE <<>>]>>
    ELSE <<>>

\* the dict create_and_publish_post returns
PublicationResult(f) ==
    LET created_post == f.created_post[1]
        quality_result == f.quality_result[1]
    IN  [job_id |-> f.job[1].id,
         wp_post_id |-> created_post.id,
         title |-> created_post.title,
         status |-> created_post.status,
         url |-> settings.wordpress_url \o "/" \o created_post.slug,
         quality_score |-> quality_result.score,
         quality_passed |-> quality_result.passed,
         quality_issues |-> quality_result.issues]

\* a workflow that goes on to generation whether or not its initial save
\* wrote the record
AfterSave_GoOn(f, ok) ==
    IF f.pc = "save_started"
    THEN [f EXCEPT !.pc = "generate"]
    ELSE IF f.pc = "save_completed"
    THEN IF ok THEN [f EXCEPT !.pc = "done", !.outcome = "returned",
                              !.result = <<PublicationResult(f)>>]
         ELSE Except(f, StoreErrorDesc)
    ELSE IF ok THEN [f EXCEPT !.pc = "done", !.outcome = "raised"]
         ELSE RaiseToCaller(f, StoreErrorDesc)

\* create_and_publish_post after each of its three save_job calls:
\*   the initial save, before the try: a failure goes to the caller;
\*   the completion save, inside the try: a failure enters the except clause;
\*   the save of the except clause: then `raise` re-raises the exception
\*   that entered the clause; a failure of this save is what the caller sees.
AfterSave(f, ok) ==
    IF f.pc = "save_started"
    THEN IF ok THEN [f EXCEPT !.pc = "generate"]
         ELSE RaiseToCaller(f, StoreErrorDesc)
    ELSE IF f.pc = "save_completed"
    THEN IF ok THEN [f EXCEPT !.pc = "done", !.outcome = "returned",
                              !.result = <<PublicationResult(f)>>]
         ELSE Except(f, StoreErrorDesc)
    ELSE IF ok THEN [f EXCEPT !.pc = "done", !.outcome = "raised"]
         ELSE RaiseToCaller(f, StoreErrorDesc)

\* a save_job call of invocation i takes place: the write succeeds (ok) or
\* the store raises and nothing is written
SaveJob(i) ==
    /\ run[i].pc \in {"save_started", "save_completed", "save_failed"}
    /\ \E ok \in BOOLEAN :
        /\ run' = [run EXCEPT ![i] =
                        AfterSave(Saved(Called(run[i], "save_job"), ok), ok)]
        /\ store' = IF ok THEN save_job(store, run[i].job[1]) ELSE store
    /\ UNCHANGED <<wp, next_id, clock>>

(***************************************************************************)
(* The generation stages. A reply of the language model is a text that     *)
(* json.loads either parses (parses, with the value it denotes) or         *)
(* rejects with JSONDecodeError; lines are the lines of the text.          *)
(***************************************************************************)
\* OpenAIOutlineGenerator.generate_outline: the parsed array, else the
\* stripped non-empty lines of the reply
generate_outline(reply) ==
    IF reply.parses THEN reply.value
    ELSE SelectSeq(reply.lines, LAMBDA line : line # "")

\* the canned excerpt of the default metadata
CannedExcerpt(topic) == topic \o ": detailed information"

optimize_content_NoFallback(reply, topic) ==
    IF reply.parses THEN reply.value ELSE [error |-> "JSONDecodeError"]

\* OpenAISEOOptimizer.optimize_content: the parsed reply; the default
\* metadata when json.loads raises JSONDecodeError
optimize_content(reply, topic) ==
    IF reply.parses THEN reply.value
    ELSE [title |-> topic, excerpt |-> CannedExcerpt(topic),
          slug |-> slugify(topic), keywords |-> topic]

\* seo_meta["excerpt"] and seo_meta["slug"] can be read
HasSeoKeys(seo_meta) == HasAttr(seo_meta, "excerpt") /\ HasAttr(seo_meta, "slug")

generate_content_AsGiven(topic, schedule_info, categories, tags, llm, cfg) ==
    [topic |-> topic,
     outline |-> llm.outline,
     content_html |-> llm.content_html,
     excerpt |-> llm.seo_meta.excerpt,
     slug |-> llm.seo_meta.slug,
     categories |-> categories,
     tags |-> tags,
     images |-> <<>>,
     schedule |-> IF schedule_info = <<>> THEN ScheduleInfo("publish", NoTime)
                  ELSE schedule_info[1]]

(***************************************************************************)
(* OpenAIContentGenerator.generate_content: the PostContent it builds from *)
(* what the three generation stages returned. schedule_info is <<>> for    *)
(* None and <<info>> for an object (an object is never falsy); categories  *)
(* and tags are <<>> for None and for the empty list, which `not` treats   *)
(* alike.                                                                  *)
(***************************************************************************)
generate_content(topic, schedule_info, categories, tags, llm, cfg) ==
    [topic |-> topic,
     outline |-> llm.outline,
     content_html |-> llm.content_html,
     excerpt |-> llm.seo_meta.excerpt,
     slug |-> llm.seo_meta.slug,
     categories |-> IF categories = <<>> THEN <<cfg.default_category>> ELSE categories,
     tags |-> IF tags = <<>> THEN cfg.default_tags ELSE tags,
     images |-> <<>>,
     schedule |-> IF schedule_info = <<>> THEN ScheduleInfo("draft", NoTime)
                  ELSE schedule_info[1]]

\* what the generation stages return in the workflow: a body of
\* MinWordCount words with a full excerpt and a short slug
LlmOutputs(topic) ==
    {[outline |-> <<"intro", "body", "summary">>,
      content_html |-> HtmlOfWords(MinWordCount),
      seo_meta |-> [title |-> topic, excerpt |-> LongExcerpt,
                    slug |-> slugify(topic), keywords |-> topic]]}

AfterGenerate_AlwaysImage(f, content) ==
    [f EXCEPT !.content = <<content>>, !.returned = <<content>>, !.pc = "image"]

\* create_and_publish_post from the return of generate_content to the next
\* await: the image collaborator if generate_image, else the quality gate.
\* returned is bookkeeping: the PostContent as the pipeline returned it.
AfterGenerate(f, content) ==
    [f EXCEPT !.content = <<content>>, !.returned = <<content>>,
              !.pc = IF f.generate_image THEN "image" ELSE "quality"]

\* the generation call of invocation i, and the code up to the next call
GenerateContent(i) ==
    /\ run[i].pc = "generate"
    /\ LET f == Called(run[i], "generate_content") IN
       \/ \E d \in ErrDescs("generate_content") :
            run' = [run EXCEPT ![i] = Except(Fault(f), d)]
       \/ \E llm \in LlmOutputs(f.topic) :
            run' = [run EXCEPT ![i] =
                AfterGenerate(f, generate_content(f.topic, <<f.schedule_info>>,
                                    f.categories, f.tags, llm, settings))]
    /\ UNCHANGED <<store, wp, next_id, clock>>

\* ImageProcessor.create_featured_image and content.images = [featured_image]
CreateFeaturedImage(i) ==
    /\ run[i].pc = "image"
    /\ LET f == Called(run[i], "create_featured_image") IN
       \/ \E d \in ErrDescs("create_featured_image") :
            run' = [run EXCEPT ![i] = Except(Fault(f), d)]
       \/ run' = [run EXCEPT ![i] =
                [f EXCEPT !.content = <<[@[1] EXCEPT !.images = <<FeaturedImage(f.topic)>>]>>,
                          !.pc = "quality"]]
    /\ UNCHANGED <<store, wp, next_id, clock>>

(***************************************************************************)
(* The quality gate inside the workflow, and the mode override.            *)
(* content.schedule is the very ScheduleInfo object the caller passed      *)
(* (the generator stores the reference), so the override shows in both.    *)
(***************************************************************************)
GateOverride_None(f, quality_result) ==
    [f EXCEPT !.quality_result = <<quality_result>>, !.pc = "get_categories"]

\* an override whatever the gate says
GateOverride_Always(f, quality_result) ==
    [f EXCEPT !.quality_result = <<quality_result>>,
              !.content = <<[@[1] EXCEPT !.schedule.mode = "draft"]>>,
              !.schedule_info.mode = "draft",
              !.pc = "get_categories"]

\* create_and_publish_post: quality_result is kept; a failed gate forces Draft
GateOverride(f, quality_result) ==
    IF ~quality_result.passed
    THEN [f EXCEPT !.quality_result = <<quality_result>>,
                   !.content = <<[@[1] EXCEPT !.schedule.mode = "draft"]>>,
                   !.schedule_info.mode = "draft",
                   !.pc = "get_categories"]
    ELSE [f EXCEPT !.quality_result = <<quality_result>>, !.pc = "get_categories"]

\* what the sub-checkers answer in the workflow: nothing to report, four
\* broken links, or one of the four raising
WorkflowResponses ==
    {[spelling |-> 0, grammar |-> 0, plagiarism |-> 0, links |-> 0, raises |-> "none"],
     [spelling |-> 0, grammar |-> 0, plagiarism |-> 0, links |-> 4, raises |-> "none"]}
    \cup {[spelling |-> 0, grammar |-> 0, plagiarism |-> 0, links |-> 0, raises |-> c] :
            c \in {"check_spelling", "check_grammar", "check_plagiarism", "check_links"}}

\* bookkeeping: the sub-checker that raised in the invocation's evaluation
\* ("none" when none was called that raises)
SubCheckerRaised(f, responses, cfg) ==
    [f EXCEPT !.sub_raised =
        IF IndexOf(SubCheckerCalls(cfg), responses.raises, 1) > 0
        THEN responses.raises ELSE "none"]

\* the check_quality call of invocation i with the sub-checkers answering
\* `responses`, and the code up to the next call
CheckQualityWith(i, responses) ==
    /\ run[i].pc = "quality"
    /\ LET f == SubCheckerRaised(Called(run[i], "check_quality"), responses, settings)
           quality_result == check_quality(f.content[1], responses, settings)
       IN
       run' = [run EXCEPT ![i] =
                  IF quality_result.raised
                  THEN Except(Fault(f), quality_result.exc \o " failed")
                  ELSE GateOverride(f, quality_result)]
    /\ UNCHANGED <<store, wp, next_id, clock>>

CheckQuality(i) == \E responses \in WorkflowResponses : CheckQualityWith(i, responses)

(***************************************************************************)
(* Taxonomy: _get_or_create_categories and _get_or_create_tags.            *)
(* An entity is [id, name, slug]; the remote assigns the ids.              *)
(***************************************************************************)
RECURSIVE LookupByName(_, _, _)
\* existing_names = {e.name: e for e in fetched}: the last entity of a name
LookupByName(fetched, name, k) ==
    IF k = 0 THEN <<>>
    ELSE IF fetched[k].name = name THEN <<fetched[k]>>
    ELSE LookupByName(fetched, name, k - 1)

\* a loop without the break: the last marked image wins
FirstFeatured_Last(images) ==
    LET S == {k \in 1..Len(images) : images[k].use_as_featured} IN
    IF S = {} THEN 0 ELSE CHOOSE k \in S : \A j \in S : k >= j

\* for image in content.images: if image.use_as_featured: ... break
FirstFeatured(images) ==
    LET S == {k \in 1..Len(images) : images[k].use_as_featured} IN
    IF S = {} THEN 0 ELSE CHOOSE k \in S : \A j \in S : k <= j

\* create_and_publish_post, the construction of the WordPressPost and the
\* create_post call: the arguments are evaluated in order, and `date` reads
\* content.schedule.datetime
\* a WordPressPost whose date is read from the field ScheduleInfo has
BuildPost_ScheduledAt(f) ==
    LET content == f.content[1]
        status == _get_wp_status(content.schedule.mode)
    IN
    [f EXCEPT !.pc = "create_post",
              !.wp_status = status,
              !.wp_post = <<[id |-> NoId,
                             title |-> content.topic,
                             content |-> content.content_html,
                             excerpt |-> content.excerpt,
                             slug |-> content.slug,
                             status |-> status,
                             date |-> content.schedule.scheduled_at,
                             categories |-> [k \in 1..Len(f.wp_categories) |-> f.wp_categories[k].id],
                             tags |-> [k \in 1..Len(f.wp_tags) |-> f.wp_tags[k].id],
                             featured_media |-> f.featured_media_id]>>]

BuildPost(f) ==
    LET content == f.content[1]
        status == _get_wp_status(content.schedule.mode)
    IN
    IF HasAttr(content.schedule, "datetime")
    THEN [f EXCEPT !.pc = "create_post",
                   !.wp_status = status,
                   !.wp_post = <<[id |-> NoId,
                                  title |-> content.topic,
                                  content |-> content.content_html,
                                  excerpt |-> content.excerpt,
                                  slug |-> content.slug,
                                  status |-> status,
                                  date |-> content.schedule.datetime,
                                  categories |-> [k \in 1..Len(f.wp_categories) |-> f.wp_categories[k].id],
                                  tags |-> [k \in 1..Len(f.wp_tags) |-> f.wp_tags[k].id],
                                  featured_media |-> f.featured_media_id]>>]
    ELSE Except([f EXCEPT !.wp_status = status], AttributeErrorDesc)

\* the post submitted as soon as the tags are resolved, before any upload
AfterTags_PostFirst(f) ==
    LET content == f.content[1] IN
    [f EXCEPT !.pc = "create_post",
              !.wp_status = _get_wp_status(content.schedule.mode),
              !.wp_post = <<[id |-> NoId, title |-> content.topic,
                             content |-> content.content_html,
                             excerpt |-> content.excerpt, slug |-> content.slug,
                             status |-> _get_wp_status(content.schedule.mode),
                             date |-> NoTime,
                             categories |-> [k \in 1..Len(f.wp_categories) |-> f.wp_categories[k].id],
                             tags |-> [k \in 1..Len(f.wp_tags) |-> f.wp_tags[k].id],
                             featured_media |-> NoId]>>]

\* create_and_publish_post between tag resolution and the next await
AfterTags(f) ==
    IF FirstFeatured(f.content[1].images) > 0
    THEN [f EXCEPT !.pc = "upload_media"]
    ELSE BuildPost(f)

RECURSIVE ResolveNames_Dedup(_, _)
ResolveNames_Dedup(f, kind) ==
    LET names == IF kind = "category" THEN f.content[1].categories
                 ELSE f.content[1].tags
        known == f.existing \o (IF kind = "category" THEN f.wp_categories
                                ELSE f.wp_tags)
    IN  IF f.k > Len(names)
        THEN IF kind = "category" THEN [f EXCEPT !.pc = "get_tags"]
             ELSE AfterTags(f)
        ELSE LET found == LookupByName(known, names[f.k], Len(known)) IN
             IF found = <<>>
             THEN [f EXCEPT !.pc = IF kind = "category" THEN "create_category"
                                   ELSE "create_tag"]
             ELSE ResolveNames_Dedup(
                    IF kind = "category"
                    THEN [f EXCEPT !.wp_categories = Append(@, found[1]), !.k = @ + 1]
                    ELSE [f EXCEPT !.wp_tags = Append(@, found[1]), !.k = @ + 1],
                    kind)

RECURSIVE ResolveNames(_, _)
\* the loop `for name in names` from position f.k on, up to the next
\* creation call; kind is "category" or "tag"
ResolveNames(f, kind) ==
    LET names == IF kind = "category" THEN f.content[1].categories
                 ELSE f.content[1].tags
    IN  IF f.k > Len(names)
        THEN IF kind = "category" THEN [f EXCEPT !.pc = "get_tags"]
             ELSE AfterTags(f)
        ELSE LET found == LookupByName(f.existing, names[f.k], Len(f.existing)) IN
             IF found = <<>>
             THEN [f EXCEPT !.pc = IF kind = "category" THEN "create_category"
                                   ELSE "create_tag"]
             ELSE ResolveNames(
                    IF kind = "category"
                    THEN [f EXCEPT !.wp_categories = Append(@, found[1]), !.k = @ + 1]
                    ELSE [f EXCEPT !.wp_tags = Append(@, found[1]), !.k = @ + 1],
                    kind)

\* wp_client.get_categories, then the loop up to the first creation call
GetCategories(i) ==
    /\ run[i].pc = "get_categories"
    /\ LET f == Called(run[i], "get_categories") IN
       \/ \E d \in ErrDescs("get_categories") :
            run' = [run EXCEPT ![i] = Except(Fault(f), d)]
       \/ run' = [run EXCEPT ![i] =
                ResolveNames([f EXCEPT !.existing = wp.categories, !.k = 1,
                                       !.wp_categories = <<>>], "category")]
    /\ UNCHANGED <<store, wp, next_id, clock>>

\* a creation that looks the name up again and takes the entity another
\* caller created in the meantime
CreateCategory_IfStillAbsent(i) ==
    /\ run[i].pc = "create_category"
    /\ LET name == run[i].content[1].categories[run[i].k]
           found == LookupByName(wp.categories, name, Len(wp.categories))
           f == Requested(Called(run[i], "create_category"), "category", name)
           new_category == [id |-> Len(wp.categories) + 1, name |-> name,
                            slug |-> slugify(name)]
       IN
       IF found # <<>>
       THEN /\ run' = [run EXCEPT ![i] =
                    ResolveNames([run[i] EXCEPT !.wp_categories = Append(@, found[1]),
                                                !.k = @ + 1], "category")]
            /\ wp' = wp
       ELSE \/ /\ \E d \in ErrDescs("create_category") :
                    run' = [run EXCEPT ![i] = Except(Fault(f), d)]
               /\ wp' = wp
            \/ /\ run' = [run EXCEPT ![i] =
                    ResolveNames([f EXCEPT !.wp_categories = Append(@, new_category),
                                           !.k = @ + 1], "category")]
               /\ wp' = [wp EXCEPT !.categories = Append(@, new_category)]
    /\ UNCHANGED <<store, next_id, clock>>

\* wp_client.create_category for the name at position k, then the loop again
CreateCategory(i) ==
    /\ run[i].pc = "create_category"
    /\ LET name == run[i].content[1].categories[run[i].k]
           f == Requested(Called(run[i], "create_category"), "category", name)
           new_category == [id |-> Len(wp.categories) + 1, name |-> name,
                            slug |-> slugify(name)]
       IN
       \/ /\ \E d \in ErrDescs("create_category") :
                run' = [run EXCEPT ![i] = Except(Fault(f), d)]
          /\ wp' = wp
       \/ /\ run' = [run EXCEPT ![i] =
                ResolveNames([f EXCEPT !.wp_categories = Append(@, new_category),
                                       !.k = @ + 1], "category")]
          /\ wp' = [wp EXCEPT !.categories = Append(@, new_category)]
    /\ UNCHANGED <<store, next_id, clock>>

\* a tag resolver that also looks names up among the entities the category
\* resolver fetched and created
GetTags_KeepLookup(i) ==
    /\ run[i].pc = "get_tags"
    /\ LET f == Called(run[i], "get_tags") IN
       \/ \E d \in ErrDescs("get_tags") :
            run' = [run EXCEPT ![i] = Except(Fault(f), d)]
       \/ run' = [run EXCEPT ![i] =
                ResolveNames([f EXCEPT !.existing = f.wp_categories \o wp.tags,
                                       !.k = 1, !.wp_tags = <<>>], "tag")]
    /\ UNCHANGED <<store, wp, next_id, clock>>

\* wp_client.get_tags, then the loop up to the first creation call
GetTags(i) ==
    /\ run[i].pc = "get_tags"
    /\ LET f == Called(run[i], "get_tags") IN
       \/ \E d \in ErrDescs("get_tags") :
            run' = [run EXCEPT ![i] = Except(Fault(f), d)]
       \/ run' = [run EXCEPT ![i] =
                ResolveNames([f EXCEPT !.existing = wp.tags, !.k = 1,
                                       !.wp_tags = <<>>], "tag")]
    /\ UNCHANGED <<store, wp, next_id, clock>>

\* wp_client.create_tag for the name at position k, then the loop again
CreateTag(i) ==
    /\ run[i].pc = "create_tag"
    /\ LET name == run[i].content[1].tags[run[i].k]
           f == Requested(Called(run[i], "create_tag"), "tag", name)
           new_tag == [id |-> Len(wp.tags) + 1, name |-> name,
                       slug |-> slugify(name)]
       IN
       \/ /\ \E d \in ErrDescs("create_tag") :
                run' = [run EXCEPT ![i] = Except(Fault(f), d)]
          /\ wp' = wp
       \/ /\ run' = [run EXCEPT ![i] =
                ResolveNames([f EXCEPT !.wp_tags = Append(@, new_tag),
                                       !.k = @ + 1], "tag")]
          /\ wp' = [wp EXCEPT !.tags = Append(@, new_tag)]
    /\ UNCHANGED <<store, next_id, clock>>

(***************************************************************************)
(* The two writes that make the post: upload_media for the featured image  *)
(* and create_post. Each is followed by the code up to the next await:     *)
(* after upload_media the WordPressPost is built; after create_post the    *)
(* job is marked completed and its save is called.                         *)
(***************************************************************************)
AfterUpload(f, media_id) ==
    LET at == FirstFeatured(f.content[1].images) IN
    BuildPost([f EXCEPT !.featured_media_id = media_id,
                        !.content = <<[@[1] EXCEPT !.images[at].wp_media_id = media_id]>>])

AfterCreatePost(f, created_post) ==
    [f EXCEPT !.created_post = <<created_post>>,
              !.job = <<[@[1] EXCEPT !.status = "completed",
                                     !.completed_at = clock,
                                     !.wp_post_id = created_post.id,
                                     !.content = f.content]>>,
              !.pc = "save_completed"]

WpWrite(i) ==
    /\ run[i].pc \in {"upload_media", "create_post"}
    /\ LET call == run[i].pc
           f == Called(run[i], call)
       IN
       \/ /\ \E d \in ErrDescs(call) :
                run' = [run EXCEPT ![i] = Except(Fault(f), d)]
          /\ UNCHANGED <<wp, clock>>
       \/ /\ run' = [run EXCEPT ![i] =
                IF call = "upload_media"
                THEN AfterUpload(f, Len(wp.media) + 1)
                ELSE AfterCreatePost(f, [f.wp_post[1] EXCEPT !.id = Len(wp.posts) + 1])]
          /\ wp' = IF call = "upload_media"
                   THEN [wp EXCEPT !.media = Append(@, f.content[1].images[FirstFeatured(f.content[1].images)].path)]
                   ELSE [wp EXCEPT !.posts = Append(@, [f.wp_post[1] EXCEPT !.id = Len(wp.posts) + 1])]
          /\ clock' = IF call = "upload_media" THEN clock ELSE clock + 1
    /\ UNCHANGED <<store, next_id>>

(***************************************************************************)
(* BlogService.retry_failed_job: the lookup, the two checks, and then      *)
(* create_and_publish_post up to its first await.                          *)
(***************************************************************************)
retry_failed_job_AnyStatus(f, job_id, looked_up) ==
    LET g == [f EXCEPT !.kind = "retry", !.retry_of = job_id,
                       !.seen_status = IF looked_up = <<>> THEN "absent"
                                       ELSE looked_up[1].status]
    IN  IF looked_up = <<>>
        THEN RaiseToCaller(g, NotFoundDesc)
        ELSE StartWorkflow(g, "retry", job_id, looked_up[1].topic,
                           ScheduleInfo("draft", NoTime), <<>>, <<>>, TRUE)

retry_failed_job_SameMode(f, job_id, looked_up) ==
    LET g == [f EXCEPT !.kind = "retry", !.retry_of = job_id,
                       !.seen_status = IF looked_up = <<>> THEN "absent"
                                       ELSE looked_up[1].status]
    IN  IF looked_up = <<>>
        THEN RaiseToCaller(g, NotFoundDesc)
        ELSE IF looked_up[1].status # "failed"
        THEN RaiseToCaller(g, InvalidStateDesc)
        ELSE StartWorkflow(g, "retry", job_id, looked_up[1].topic,
                           ScheduleInfo("publish", NoTime), <<>>, <<>>, TRUE)

\* a retry without the not-found check: an unknown id starts a run
retry_failed_job_NoAbsentCheck(f, job_id, looked_up) ==
    LET g == [f EXCEPT !.kind = "retry", !.retry_of = job_id,
                       !.seen_status = IF looked_up = <<>> THEN "absent"
                                       ELSE looked_up[1].status]
    IN  IF looked_up = <<>>
        THEN StartWorkflow(g, "retry", job_id, "", ScheduleInfo("draft", NoTime),
                           <<>>, <<>>, TRUE)
        ELSE IF looked_up[1].status # "failed"
        THEN RaiseToCaller(g, InvalidStateDesc)
        ELSE StartWorkflow(g, "retry", job_id, looked_up[1].topic,
                           ScheduleInfo("draft", NoTime), <<>>, <<>>, TRUE)

retry_failed_job(f, job_id, looked_up) ==
    LET g == [f EXCEPT !.kind = "retry", !.retry_of = job_id,
                       !.seen_status = IF looked_up = <<>> THEN "absent"
                                       ELSE looked_up[1].status]
    IN  IF looked_up = <<>>
        THEN RaiseToCaller(g, NotFoundDesc)
        ELSE IF looked_up[1].status # "failed"
        THEN RaiseToCaller(g, InvalidStateDesc)
        ELSE StartWorkflow(g, "retry", job_id, looked_up[1].topic,
                           ScheduleInfo("draft", NoTime), <<>>, <<>>, TRUE)

Retry(i, job_id) ==
    /\ run[i].pc = "idle"
    /\ \E ok \in BOOLEAN :
        LET f == Called(run[i], "get_job")
            g == IF ok THEN retry_failed_job(f, job_id, get_job(store, job_id))
                 ELSE RaiseToCaller(Fault([f EXCEPT !.kind = "retry",
                                                    !.retry_of = job_id]),
                                    StoreErrorDesc)
        IN  /\ run' = [run EXCEPT ![i] = g]
            /\ next_id' = IF StartedJob(g) THEN next_id + 1 ELSE next_id
            /\ clock' = IF StartedJob(g) THEN clock + 1 ELSE clock
    /\ UNCHANGED <<store, wp>>

(***************************************************************************)
(* The workflow's specification: up to MaxRuns invocations, made in any    *)
(* order of arrival and running concurrently.                              *)
(***************************************************************************)
\* the ScheduleInfo values a caller passes
ScheduleInfos ==
    {ScheduleInfo("draft", NoTime), ScheduleInfo("publish", NoTime),
     ScheduleInfo("schedule", NoTime), ScheduleInfo("schedule", SomeTime)}

WorkflowSettings ==
    [min_word_count |-> MinWordCount, max_word_count |-> MaxWordCount,
     plagiarism_check_enabled |-> TRUE, grammar_check_enabled |-> TRUE,
     wordpress_url |-> "https://blog.example",
     default_category |-> "AI", default_tags |-> <<"AI">>]

Init ==
    /\ settings = WorkflowSettings
    /\ qc_content = <<>>
    /\ qc_responses = <<>>
    /\ qc_result = <<>>
    /\ WInit

\* invocation slots are taken in order
NextSlot(i) == \A j \in Runs : j < i => run[j].pc # "idle"

Next ==
    \E i \in Runs :
        \/ /\ NextSlot(i)
           /\ \E topic \in Topics, schedule_info \in ScheduleInfos,
                 generate_image \in BOOLEAN :
                 Publish(i, topic, schedule_info, <<>>, <<>>, generate_image)
           /\ UNCHANGED <<qvars, dvars, gvars>>
        \/ /\ NextSlot(i)
           /\ \E job_id \in 1..next_id : Retry(i, job_id)
           /\ UNCHANGED <<qvars, dvars, gvars>>
        \/ SaveJob(i) /\ UNCHANGED <<qvars, dvars, gvars>>
        \/ GenerateContent(i) /\ UNCHANGED <<qvars, dvars, gvars>>
        \/ CreateFeaturedImage(i) /\ UNCHANGED <<qvars, dvars, gvars>>
        \/ CheckQuality(i) /\ UNCHANGED <<qvars, dvars, gvars>>
        \/ GetCategories(i) /\ UNCHANGED <<qvars, dvars, gvars>>
        \/ CreateCategory(i) /\ UNCHANGED <<qvars, dvars, gvars>>
        \/ GetTags(i) /\ UNCHANGED <<qvars, dvars, gvars>>
        \/ CreateTag(i) /\ UNCHANGED <<qvars, dvars, gvars>>
        \/ WpWrite(i) /\ UNCHANGED <<qvars, dvars, gvars>>

Spec == Init /\ [][Next]_vars

(***************************************************************************)
(* One invocation followed to its end. Every awaited call eventually       *)
(* returns or raises, and the event loop then resumes the coroutine: a     *)
(* step that stays possible is eventually taken.                           *)
(***************************************************************************)
LNext ==
    LET i == 1 IN
        \/ /\ \E topic \in Topics, schedule_info \in ScheduleInfos,
                 generate_image \in BOOLEAN :
                 Publish(i, topic, schedule_info, <<>>, <<>>, generate_image)
           /\ UNCHANGED <<qvars, dvars, gvars>>
        \/ /\ \E job_id \in 1..next_id : Retry(i, job_id)
           /\ UNCHANGED <<qvars, dvars, gvars>>
        \/ SaveJob(i) /\ UNCHANGED <<qvars, dvars, gvars>>
        \/ GenerateContent(i) /\ UNCHANGED <<qvars, dvars, gvars>>
        \/ CreateFeaturedImage(i) /\ UNCHANGED <<qvars, dvars, gvars>>
        \/ CheckQuality(i) /\ UNCHANGED <<qvars, dvars, gvars>>
        \/ GetCategories(i) /\ UNCHANGED <<qvars, dvars, gvars>>
        \/ CreateCategory(i) /\ UNCHANGED <<qvars, dvars, gvars>>
        \/ GetTags(i) /\ UNCHANGED <<qvars, dvars, gvars>>
        \/ CreateTag(i) /\ UNCHANGED <<qvars, dvars, gvars>>
        \/ WpWrite(i) /\ UNCHANGED <<qvars, dvars, gvars>>

SpecLive == Init /\ [][LNext]_vars /\ WF_vars(LNext)

(***************************************************************************)
(* The workflow with the caller naming the categories and the tags,        *)
(* against a remote that already holds some of them. No image is asked.    *)
(***************************************************************************)
\* the longest list of names a caller passes
MaxNames == 3

RECURSIVE SeqsUpTo(_, _)
SeqsUpTo(S, n) ==
    IF n = 0 THEN {<<>>}
    ELSE LET shorter == SeqsUpTo(S, n - 1) IN
         shorter \cup {Append(q, x) : q \in shorter, x \in S}

\* --categories / --tags of the command line, split at the commas
CategoryLists == SeqsUpTo({"A", "B"}, MaxNames)
TagLists == {<<>>, <<"B", "A", "B">>, <<"A">>}

\* what the remote holds before the run: nothing, or category A and tag A
Remotes ==
    {EmptyRemote,
     [EmptyRemote EXCEPT
        !.categories = <<[id |-> 1, name |-> "A", slug |-> "a"]>>,
        !.tags = <<[id |-> 1, name |-> "A", slug |-> "a"]>>]}

TInit ==
    /\ settings = WorkflowSettings
    /\ qc_content = <<>>
    /\ qc_responses = <<>>
    /\ qc_result = <<>>
    /\ run = [i \in Runs |-> IdleFrame]
    /\ store = <<>>
    /\ wp \in Remotes
    /\ next_id = 2
    /\ clock = 2
    /\ DIdle

\* one invocation, the first: what other invocations did to the remote is
\* in Remotes
TNext ==
    LET i == 1 IN
        \/ /\ NextSlot(i)
           /\ \E topic \in Topics, categories \in CategoryLists, tags \in TagLists :
                 Publish(i, topic, ScheduleInfo("publish", NoTime),
                         categories, tags, FALSE)
           /\ UNCHANGED <<qvars, dvars, gvars>>
        \/ SaveJob(i) /\ UNCHANGED <<qvars, dvars, gvars>>
        \/ GenerateContent(i) /\ UNCHANGED <<qvars, dvars, gvars>>
        \/ CheckQuality(i) /\ UNCHANGED <<qvars, dvars, gvars>>
        \/ GetCategories(i) /\ UNCHANGED <<qvars, dvars, gvars>>
        \/ CreateCategory(i) /\ UNCHANGED <<qvars, dvars, gvars>>
        \/ GetTags(i) /\ UNCHANGED <<qvars, dvars, gvars>>
        \/ CreateTag(i) /\ UNCHANGED <<qvars, dvars, gvars>>

SpecTaxonomy == TInit /\ [][TNext]_vars

(***************************************************************************)
(* Concurrent publish calls: MaxConcurrent invocations of                  *)
(* create_and_publish_post whose awaited calls interleave in any order,    *)
(* against one job table and one remote, both empty at the start. Every    *)
(* caller publishes the same topic with the default category and tag and   *)
(* asks for no image; the sub-checkers find nothing, or the link checker   *)
(* raises.                                                                 *)
(***************************************************************************)
MaxConcurrent == 2

ConcurrentResponses ==
    {r \in WorkflowResponses : r.links = 0 /\ r.raises \in {"none", "check_links"}}

Concurrent == 1..MaxConcurrent

CInit ==
    /\ settings = WorkflowSettings
    /\ qc_content = <<>>
    /\ qc_responses = <<>>
    /\ qc_result = <<>>
    /\ run = [i \in Concurrent |-> IdleFrame]
    /\ store = <<>>
    /\ wp = EmptyRemote
    /\ next_id = 2
    /\ clock = 2
    /\ DIdle

CNext ==
    \E i \in Concurrent :
        \/ /\ \A j \in Concurrent : j < i => run[j].pc # "idle"
           /\ \E topic \in Topics :
                 Publish(i, topic, ScheduleInfo("publish", NoTime), <<>>, <<>>, FALSE)
           /\ UNCHANGED <<qvars, dvars, gvars>>
        \/ SaveJob(i) /\ UNCHANGED <<qvars, dvars, gvars>>
        \/ GenerateContent(i) /\ UNCHANGED <<qvars, dvars, gvars>>
        \/ /\ \E responses \in ConcurrentResponses : CheckQualityWith(i, responses)
           /\ UNCHANGED <<qvars, dvars, gvars>>
        \/ GetCategories(i) /\ UNCHANGED <<qvars, dvars, gvars>>
        \/ CreateCategory(i) /\ UNCHANGED <<qvars, dvars, gvars>>
        \/ GetTags(i) /\ UNCHANGED <<qvars, dvars, gvars>>
        \/ CreateTag(i) /\ UNCHANGED <<qvars, dvars, gvars>>

SpecConcurrent == CInit /\ [][CNext]_vars

(***************************************************************************)
(* Retries of one failed job: up to MaxConcurrent retry_failed_job calls   *)
(* of the job stored under id 1, running concurrently.                     *)
(***************************************************************************)
FailedJob == PersistedJob("Other Topic", "failed", AttributeErrorDesc)

RInit ==
    /\ settings = WorkflowSettings
    /\ qc_content = <<>>
    /\ qc_responses = <<>>
    /\ qc_result = <<>>
    /\ run = [i \in Concurrent |-> IdleFrame]
    /\ store = (1 :> FailedJob)
    /\ wp = EmptyRemote
    /\ next_id = 2
    /\ clock = 2
    /\ DIdle

RNext ==
    \E i \in Concurrent :
        \/ /\ \A j \in Concurrent : j < i => run[j].pc # "idle"
           /\ Retry(i, 1)
           /\ UNCHANGED <<qvars, dvars, gvars>>
        \/ SaveJob(i) /\ UNCHANGED <<qvars, dvars, gvars>>
        \/ GenerateContent(i) /\ UNCHANGED <<qvars, dvars, gvars>>
        \/ CreateFeaturedImage(i) /\ UNCHANGED <<qvars, dvars, gvars>>
        \/ /\ \E responses \in ConcurrentResponses : CheckQualityWith(i, responses)
           /\ UNCHANGED <<qvars, dvars, gvars>>
        \/ GetCategories(i) /\ UNCHANGED <<qvars, dvars, gvars>>
        \/ CreateCategory(i) /\ UNCHANGED <<qvars, dvars, gvars>>
        \/ GetTags(i) /\ UNCHANGED <<qvars, dvars, gvars>>
        \/ CreateTag(i) /\ UNCHANGED <<qvars, dvars, gvars>>
        \/ WpWrite(i) /\ UNCHANGED <<qvars, dvars, gvars>>

SpecRetry == RInit /\ [][RNext]_vars

(***************************************************************************)
(* The content pipeline on its own: one generate_content call, as          *)
(* generate_content_only (the preview command) and the workflow make it,   *)
(* with any of the optional arguments given or not. The three stages are   *)
(* awaited one after the other; each may raise (the API call failing),     *)
(* and that exception leaves generate_content.                             *)
(***************************************************************************)
GenTopics == {"Test Topic", "Other Topic"}

\* the replies of the outline stage: a JSON array, or prose in lines
OutlineReplies ==
    {[parses |-> TRUE, value |-> <<"intro", "body", "summary">>, lines |-> <<>>],
     [parses |-> FALSE, value |-> <<>>, lines |-> <<"intro", "", "body">>]}

\* the replies of the optimizer: the JSON object asked for; text that is
\* not JSON (the object wrapped in a code fence); JSON objects that lack
\* the excerpt, the slug, or every key
OptimizerReplies(topic) ==
    {[parses |-> TRUE,
      value |-> [title |-> topic, excerpt |-> LongExcerpt,
                 slug |-> ShortSlug, keywords |-> topic]],
     [parses |-> FALSE, value |-> [text |-> "fenced"]],
     [parses |-> TRUE,
      value |-> [title |-> topic, slug |-> ShortSlug, keywords |-> topic]],
     [parses |-> TRUE,
      value |-> [title |-> topic, excerpt |-> LongExcerpt, keywords |-> topic]],
     [parses |-> TRUE, value |-> [message |-> "no metadata"]]}

GenSettings ==
    {WorkflowSettings, [WorkflowSettings EXCEPT !.default_tags = <<"AI", "blog">>]}

GInit ==
    /\ settings \in GenSettings
    /\ qc_content = <<>>
    /\ qc_responses = <<>>
    /\ qc_result = <<>>
    /\ run = [i \in Runs |-> IdleFrame]
    /\ store = <<>>
    /\ wp = EmptyRemote
    /\ next_id = 2
    /\ clock = 2
    /\ query = IdleQuery
    /\ saved = <<>>
    /\ \E topic \in GenTopics,
          schedule_info \in {<<>>} \cup {<<si>> : si \in ScheduleInfos},
          categories \in {<<>>, <<"A">>, <<"B", "A">>},
          tags \in {<<>>, <<"B">>} :
          gen = [IdleGen EXCEPT !.pc = "generate_outline", !.topic = topic,
                                !.schedule_info = schedule_info,
                                !.categories = categories, !.tags = tags]

\* a stage's API call fails: the exception leaves generate_content
GenRaise(g, desc) == [g EXCEPT !.pc = "raised", !.exc = desc]

\* generate_content, line 154
GenerateOutline ==
    /\ gen.pc = "generate_outline"
    /\ \/ gen' = GenRaise(gen, "generate_outline failed")
       \/ \E reply \in OutlineReplies :
            gen' = [gen EXCEPT !.outline = generate_outline(reply),
                               !.pc = "write_content"]
    /\ UNCHANGED <<qvars, wvars, dvars>>

\* generate_content, line 157
WriteContent ==
    /\ gen.pc = "write_content"
    /\ \/ gen' = GenRaise(gen, "write_content failed")
       \/ \E n \in {0, MinWordCount} :
            gen' = [gen EXCEPT !.content_html = HtmlOfWords(n),
                               !.pc = "optimize_content"]
    /\ UNCHANGED <<qvars, wvars, dvars>>

\* generate_content from line 160 to its return: the optimizer stage, the
\* defaults, and the PostContent; reading a key the metadata lacks raises
OptimizeContent ==
    /\ gen.pc = "optimize_content"
    /\ \/ gen' = GenRaise(gen, "optimize_content failed")
       \/ \E reply \in OptimizerReplies(gen.topic) :
            LET seo_meta == optimize_content(reply, gen.topic)
                g == [gen EXCEPT !.seo_meta = <<seo_meta>>,
                                 !.fell_back = ~reply.parses]
            IN  gen' = IF HasSeoKeys(seo_meta)
                       THEN [g EXCEPT !.pc = "returned",
                                !.result = <<generate_content(g.topic, g.schedule_info,
                                    g.categories, g.tags,
                                    [outline |-> g.outline,
                                     content_html |-> g.content_html,
                                     seo_meta |-> seo_meta], settings)>>]
                       ELSE GenRaise(g, "KeyError")
    /\ UNCHANGED <<qvars, wvars, dvars>>

GNext == GenerateOutline \/ WriteContent \/ OptimizeContent

SpecGenerator == GInit /\ [][GNext]_vars

(***************************************************************************)
(* The upload of the featured image for any image list. The loop of        *)
(* create_and_publish_post (lines 80-90) takes whatever content.images     *)
(* holds. With the collaborators BlogService wires in, the list is empty   *)
(* or the one image of create_featured_image; PostContent allows any list, *)
(* and the loop is followed here for every list of up to MaxImages         *)
(* descriptors, marked or not. The invocation is taken where it awaits     *)
(* get_tags: its job is stored as `started`, the content generated, the    *)
(* gate passed, the default category found on the remote.                  *)
(***************************************************************************)
MaxImages == 3

ImagePaths == [k \in 1..MaxImages |-> "images/" \o ToString(k) \o ".webp"]

\* the image lists: a descriptor per position, each marked or not
ImageLists ==
    UNION {{[k \in 1..n |-> [path |-> ImagePaths[k], alt |-> "Test Topic",
                             use_as_featured |-> marks[k], wp_media_id |-> NoId]] :
                marks \in [1..n -> BOOLEAN]} : n \in 0..MaxImages}

RemoteCategory == [id |-> 1, name |-> "AI", slug |-> "ai"]

\* the frame of an invocation of mode `mode` awaiting get_tags, its
\* content holding `images`
UploadFrame(images, mode) ==
    LET info == ScheduleInfo(mode, NoTime)
        llm == CHOOSE out \in LlmOutputs("Test Topic") : TRUE
        returned == generate_content("Test Topic", <<info>>, <<>>, <<>>, llm,
                                     WorkflowSettings)
        content == [returned EXCEPT !.images = images]
        answers == [spelling |-> 0, grammar |-> 0, plagiarism |-> 0, links |-> 0,
                    raises |-> "none"]
    IN  [IdleFrame EXCEPT
            !.pc = "get_tags", !.kind = "publish", !.topic = "Test Topic",
            !.req_mode = mode, !.schedule_info = info,
            !.generate_image = FALSE,
            !.job = <<GenerationJob(2, "Test Topic", 2, NoTime)>>,
            !.content = <<content>>, !.returned = <<returned>>,
            !.quality_result = <<check_quality(content, answers, WorkflowSettings)>>,
            !.existing = <<RemoteCategory>>, !.k = 2,
            !.wp_categories = <<RemoteCategory>>,
            !.last_save = "ok",
            !.calls = <<"save_job", "generate_content", "check_quality",
                        "get_categories">>]

UInit ==
    /\ settings = WorkflowSettings
    /\ qc_content = <<>>
    /\ qc_responses = <<>>
    /\ qc_result = <<>>
    /\ \E images \in ImageLists, mode \in {"draft", "publish"} :
          run = [i \in Runs |-> IF i = 1 THEN UploadFrame(images, mode)
                                ELSE IdleFrame]
    /\ store = save_job(<<>>, GenerationJob(2, "Test Topic", 2, NoTime))
    /\ wp \in {[EmptyRemote EXCEPT !.categories = <<RemoteCategory>>],
                [EmptyRemote EXCEPT !.categories = <<RemoteCategory>>,
                                    !.tags = <<RemoteCategory>>]}
    /\ next_id = 3
    /\ clock = 3
    /\ DIdle

UNext ==
    LET i == 1 IN
        \/ GetTags(i) /\ UNCHANGED <<qvars, dvars, gvars>>
        \/ CreateTag(i) /\ UNCHANGED <<qvars, dvars, gvars>>
        \/ WpWrite(i) /\ UNCHANGED <<qvars, dvars, gvars>>
        \/ SaveJob(i) /\ UNCHANGED <<qvars, dvars, gvars>>

SpecUpload == UInit /\ [][UNext]_vars

(***************************************************************************)
(* DatabaseService on its own: clients saving jobs and querying the job    *)
(* table. Every statement runs on a connection of its own and commits by   *)
(* itself; get_statistics awaits three SELECTs one after the other, and    *)
(* another client's save may commit between two of them.                   *)
(***************************************************************************)
\* the job ids clients save under
MaxJobs == 2

JobIds == 1..MaxJobs

\* the instants jobs are created at (two jobs may share one)
StoreTimes == {1, 2}

\* the length of a day, in instants
TicksPerDay == 2

SampleContent ==
    generate_content("Test Topic", <<ScheduleInfo("publish", SomeTime)>>, <<>>, <<>>,
                     CHOOSE llm \in LlmOutputs("Test Topic") : TRUE, WorkflowSettings)

\* the jobs clients save: as created (at either instant), as the except
\* clause leaves them, and as the success path leaves them
StoreJobs ==
    UNION {
        {GenerationJob(id, "Test Topic", t, NoTime) : t \in StoreTimes}
        \cup
        {[GenerationJob(id, "Test Topic", 1, NoTime) EXCEPT
            !.status = "failed", !.error_message = "generate_content failed"],
         [GenerationJob(id, "Test Topic", 2, SomeTime) EXCEPT
            !.status = "completed", !.completed_at = 3, !.wp_post_id = 1,
            !.content = <<SampleContent>>]} : id \in JobIds}

\* `if status:` a filter that is None or empty is no filter
Truthy(status) == status \notin {NoneStr, ""}

\* WHERE status = ?
Matching(table, status) ==
    {id \in DOMAIN table : ~Truthy(status) \/ table[id].status = status}

\* ORDER BY created_at DESC: the orders the engine may return the rows in
\* (rows of equal created_at come in any order)
Orderings(table, ids) ==
    {s \in [1..Cardinality(ids) -> ids] :
        /\ \A a, b \in DOMAIN s : a # b => s[a] # s[b]
        /\ \A a, b \in DOMAIN s :
              a < b => table[s[a]].created_at >= table[s[b]].created_at}

\* LIMIT ?: a negative limit is no limit
Limited(rows, limit) ==
    IF limit < 0 THEN rows ELSE SubSeq(rows, 1, Min(limit, Len(rows)))

\* the dict get_recent_jobs makes of a row
RecentRow(row) ==
    [id |-> row.id, title |-> row.topic, status |-> row.status,
     created_at |-> row.created_at, completed_at |-> row.completed_at,
     wp_post_id |-> row.wp_post_id, error_message |-> row.error_message,
     quality_score |-> "N/A"]

\* DatabaseService.get_recent_jobs: the lists it may return
get_recent_jobs(table, limit, status) ==
    {LET rows == Limited(s, limit) IN
     [k \in 1..Len(rows) |-> RecentRow(table[rows[k]])] :
        s \in Orderings(table, Matching(table, status))}

\* SELECT status, COUNT(*) ... GROUP BY status, as a dict
status_counts(table) ==
    [st \in {table[id].status : id \in DOMAIN table} |->
        Cardinality({id \in DOMAIN table : table[id].status = st})]

dict_get(d, key, default) == IF key \in DOMAIN d THEN d[key] ELSE default

\* date(created_at) of the engine, and datetime.now().date()
sql_date(text) == fromisoformat(text) \div TicksPerDay
today(now) == now \div TicksPerDay

\* status_counts.get("completed", 0) / total_jobs * 100 if total_jobs > 0
\* else 0, as the exact fraction num/den
success_rate_NoGuard(counts, total_jobs) ==
    [num |-> dict_get(counts, "completed", 0) * 100, den |-> total_jobs]

success_rate(counts, total_jobs) ==
    IF total_jobs > 0
    THEN [num |-> dict_get(counts, "completed", 0) * 100, den |-> total_jobs]
    ELSE [num |-> 0, den |-> 1]

\* history: whether the save replaces a row by one in which a column that
\* was set is NULL
ResetsColumn(table, job) ==
    /\ job.id \in DOMAIN table
    /\ LET old == table[job.id]
           new == JobRow(job)
       IN  \/ old.completed_at # NoTime /\ new.completed_at = NoTime
           \/ old.wp_post_id # NoId /\ new.wp_post_id = NoId
           \/ old.error_message # NoneStr /\ new.error_message = NoneStr
           \/ old.content_json # <<>> /\ new.content_json = <<>>

\* a query can be called when none is in progress
QueryFree == query.pc \in {"idle", "done"}

\* a client's save_job call commits; a result returned before it has been
\* consumed, and a get_statistics call past its first SELECT is marked
DbSave(job) ==
    /\ store' = save_job(store, job)
    /\ saved' = (job.id :> [job |-> job, reset |-> ResetsColumn(store, job)]) @@ saved
    /\ query' = IF query.pc = "done" THEN IdleQuery
                 ELSE IF query.pc \in {"stat_status", "stat_today"}
                 THEN [query EXCEPT !.interleaved = TRUE]
                 ELSE query
    /\ UNCHANGED <<run, wp, next_id, clock>>

DbGet(job_id) ==
    /\ QueryFree
    /\ query' = [IdleQuery EXCEPT !.op = "get_job", !.pc = "done",
                                   !.job_id = job_id,
                                   !.result = get_job(store, job_id)]
    /\ UNCHANGED <<run, store, wp, next_id, clock, saved>>

DbRecent(limit, status) ==
    /\ QueryFree
    /\ \E rows \in get_recent_jobs(store, limit, status) :
         query' = [IdleQuery EXCEPT !.op = "get_recent_jobs", !.pc = "done",
                                    !.limit = limit, !.status = status,
                                    !.result = rows]
    /\ UNCHANGED <<run, store, wp, next_id, clock, saved>>

\* get_statistics is called: init_database is awaited
DbStatistics ==
    /\ QueryFree
    /\ query' = [IdleQuery EXCEPT !.op = "get_statistics", !.pc = "stat_total"]
    /\ UNCHANGED <<run, store, wp, next_id, clock, saved>>

\* the three SELECTs of get_statistics, one per step, and the return
StatisticsQuery ==
    /\ query.pc \in {"stat_total", "stat_status", "stat_today"}
    /\ query' =
         IF query.pc = "stat_total"
         THEN [query EXCEPT !.total_jobs = Cardinality(DOMAIN store),
                            !.pc = "stat_status"]
         ELSE IF query.pc = "stat_status"
         THEN [query EXCEPT !.status_counts = status_counts(store),
                            !.pc = "stat_today"]
         ELSE [query EXCEPT
                 !.result = <<[total_jobs |-> query.total_jobs,
                               status_counts |-> query.status_counts,
                               today_jobs |-> Cardinality(
                                   {id \in DOMAIN store :
                                      sql_date(store[id].created_at) = today(clock)}),
                               success_rate |-> success_rate(query.status_counts,
                                                             query.total_jobs)]>>,
                 !.pc = "done"]
    /\ UNCHANGED <<run, store, wp, next_id, clock, saved>>

\* the limits and status filters clients pass (--limit, --status)
Limits == -1..MaxJobs
StatusFilters == {NoneStr, "", "failed"}

DInit ==
    /\ settings = WorkflowSettings
    /\ qc_content = <<>>
    /\ qc_responses = <<>>
    /\ qc_result = <<>>
    /\ WInitIdle

DNext ==
    \/ (\E job \in StoreJobs : DbSave(job)) /\ UNCHANGED <<qvars, gvars>>
    \/ (\E job_id \in JobIds : DbGet(job_id)) /\ UNCHANGED <<qvars, gvars>>
    \/ (\E limit \in Limits, status \in StatusFilters : DbRecent(limit, status))
       /\ UNCHANGED <<qvars, gvars>>
    \/ DbStatistics /\ UNCHANGED <<qvars, gvars>>
    \/ StatisticsQuery /\ UNCHANGED <<qvars, gvars>>

SpecStore == DInit /\ [][DNext]_vars

(***************************************************************************)
(* The quality gate on its own: one check_quality call on any content,     *)
(* any sub-checker answers and any configuration of the two toggles.       *)
(***************************************************************************)
QcContents ==
    [content_html : HtmlSamples,
     excerpt : {"", ShortExcerpt, LongExcerpt},
     slug : {ShortSlug, LongSlug},
     images : {<<>>}]

Similarities == {0, 50, 51, 100}

\* a long list of findings; a sub-checker returns a list of any length
ManyFindings == 34

\* the numbers of findings a sub-checker returns
FindingCounts == 0..MaxFindings \cup {ManyFindings}

QcResponses ==
    [spelling : FindingCounts, grammar : FindingCounts,
     plagiarism : Similarities, links : FindingCounts,
     raises : {"none"}]

QInit ==
    /\ settings \in SettingsSet
    /\ qc_content \in QcContents
    /\ qc_responses \in QcResponses
    /\ qc_result = <<>>
    /\ WInitIdle

Evaluate ==
    /\ qc_result = <<>>
    /\ qc_result' = <<check_quality(qc_content, qc_responses, settings)>>
    /\ UNCHANGED <<settings, qc_content, qc_responses>>
    /\ UNCHANGED <<wvars, dvars, gvars>>

QNext == Evaluate

SpecQuality == QInit /\ [][QNext]_vars

(***************************************************************************)
(* The command line: `create TOPIC [--schedule S] [--draft] [--publish]`.  *)
(* _parse_schedule_info builds the ScheduleInfo that                       *)
(* create_and_publish_post is called with.                                 *)
(***************************************************************************)
\* --schedule absent, a string in the format %Y-%m-%d %H:%M, another string
ScheduleArgs == {<<>>, <<"2025-01-01 10:00">>, <<"tomorrow">>}

\* datetime.strptime(schedule, "%Y-%m-%d %H:%M"): <<dt>>, or <<>> for the
\* ValueError
strptime(schedule) ==
    IF schedule = "2025-01-01 10:00" THEN <<SomeTime>> ELSE <<>>

\* the pydantic constructor of ScheduleInfo: keyword arguments that name no
\* field are ignored, a field not given takes its default
ScheduleInfo_init(kwargs) ==
    ScheduleInfo(kwargs.mode,
                 IF HasAttr(kwargs, "scheduled_at") THEN kwargs.scheduled_at
                 ELSE NoTime)

\* exit is typer.Exit(1); info is the ScheduleInfo returned otherwise
_parse_schedule_info(schedule, draft, publish) ==
    IF draft THEN [exit |-> FALSE, info |-> ScheduleInfo_init([mode |-> "draft"])]
    ELSE IF publish
    THEN [exit |-> FALSE, info |-> ScheduleInfo_init([mode |-> "publish"])]
    ELSE IF schedule # <<>>
    THEN LET dt == strptime(schedule[1]) IN
         IF dt = <<>>
         THEN [exit |-> TRUE, info |-> ScheduleInfo_init([mode |-> "draft"])]
         ELSE [exit |-> FALSE,
               info |-> ScheduleInfo_init([mode |-> "schedule", datetime |-> dt[1]])]
    ELSE [exit |-> FALSE, info |-> ScheduleInfo_init([mode |-> "draft"])]

\* _create_post_async up to the call of create_and_publish_post; the
\* command ends at once when the schedule does not parse
CliCreatePost(i, topic, schedule, draft, publish) ==
    LET parsed == _parse_schedule_info(schedule, draft, publish) IN
    IF parsed.exit
    THEN /\ run[i].pc = "idle"
         /\ run' = [run EXCEPT ![i] = [@ EXCEPT !.pc = "done", !.kind = "exit",
                                                !.outcome = "exit"]]
         /\ UNCHANGED <<store, wp, next_id, clock>>
    ELSE Publish(i, topic, parsed.info, <<>>, <<>>, TRUE)

CliNext ==
    \E i \in Runs :
        \/ /\ NextSlot(i)
           /\ \E topic \in Topics, schedule \in ScheduleArgs,
                 draft \in BOOLEAN, publish \in BOOLEAN :
                 CliCreatePost(i, topic, schedule, draft, publish)
           /\ UNCHANGED <<qvars, dvars, gvars>>
        \/ SaveJob(i) /\ UNCHANGED <<qvars, dvars, gvars>>
        \/ GenerateContent(i) /\ UNCHANGED <<qvars, dvars, gvars>>
        \/ CreateFeaturedImage(i) /\ UNCHANGED <<qvars, dvars, gvars>>
        \/ CheckQuality(i) /\ UNCHANGED <<qvars, dvars, gvars>>
        \/ GetCategories(i) /\ UNCHANGED <<qvars, dvars, gvars>>
        \/ CreateCategory(i) /\ UNCHANGED <<qvars, dvars, gvars>>
        \/ GetTags(i) /\ UNCHANGED <<qvars, dvars, gvars>>
        \/ CreateTag(i) /\ UNCHANGED <<qvars, dvars, gvars>>
        \/ WpWrite(i) /\ UNCHANGED <<qvars, dvars, gvars>>

SpecCli == Init /\ [][CliNext]_vars

(***************************************************************************)
(* Properties.                                                             *)
(***************************************************************************)
Ended(i) == run[i].pc = "done"

\* the invocation entered create_and_publish_post and made its job object
HasJob(i) == run[i].job # <<>>

JobIdOf(i) == run[i].job[1].id

RECURSIVE Count(_, _)
Count(seq, x) ==
    IF seq = <<>> THEN 0
    ELSE (IF Head(seq) = x THEN 1 ELSE 0) + Count(Tail(seq), x)

\* the invocation runs create_and_publish_post (called directly, or by a
\* retry that passed its checks)
IsWorkflow(i) ==
    \/ run[i].kind = "publish"
    \/ run[i].kind = "retry" /\ run[i].seen_status = "failed"

\* the initial save succeeded: the try block was entered
PastInitialSave(i) == Count(run[i].calls, "generate_content") > 0

GateFailed(i) == run[i].quality_result # <<>> /\ ~run[i].quality_result[1].passed
GatePassed(i) == run[i].quality_result # <<>> /\ run[i].quality_result[1].passed

\* C1: once a publish invocation has ended, either it returned a success
\* result, or it raised and its stored job record is `failed` with a
\* non-empty error_message (exactly one of the two); the job of an ended
\* invocation is never absent from the store and never still `started`.
C1_EndedSuccessOrFailedRecord ==
    \A i \in Runs :
        (Ended(i) /\ run[i].kind = "publish") =>
            /\ HasJob(i)
            /\ JobIdOf(i) \in DOMAIN store
            /\ store[JobIdOf(i)].status # "started"
            /\ (run[i].outcome = "returned") #
               (/\ run[i].outcome = "raised"
                /\ store[JobIdOf(i)].status = "failed"
                /\ store[JobIdOf(i)].error_message \notin {NoneStr, ""})

\* C2: in every run whose quality gate returned passed = false, the content's
\* mode is Draft from the override on, the status derived from it for the
\* RemotePost is `draft`, and a RemotePost built for submission has status
\* `draft`, whatever mode was requested.
C2_GateFailedForcesDraft ==
    \A i \in Runs :
        GateFailed(i) =>
            /\ run[i].content[1].schedule.mode = "draft"
            /\ _get_wp_status(run[i].content[1].schedule.mode) = "draft"
            /\ run[i].wp_post # <<>> => run[i].wp_post[1].status = "draft"

\* a run requested with mode Publish whose gate failed and which went on,
\* through taxonomy and upload, to the construction of the RemotePost
C2_Witness ==
    \E i \in Runs :
        /\ run[i].req_mode = "publish"
        /\ GateFailed(i)
        /\ run[i].original = AttributeErrorDesc

\* C3: passed is true iff the final score is >= 70 and there are at most 3
\* issues.
C3_PassRule ==
    qc_result # <<>> =>
        (qc_result[1].passed <=>
            (qc_result[1].score >= Pts(70) /\ Len(qc_result[1].issues) <= 3))

\* an evaluation with a score of at least 70 and four issues: not passed
C3_Witness ==
    /\ qc_result # <<>>
    /\ qc_result[1].score >= Pts(70)
    /\ Len(qc_result[1].issues) >= 4
    /\ ~qc_result[1].passed

\* C4: the score of every returned QualityCheckResult lies in [0, 100].
C4_ScoreClamped ==
    qc_result # <<>> =>
        (qc_result[1].score >= 0 /\ qc_result[1].score <= Pts(100))

\* an evaluation whose running total before the clamp is negative
C4_Witness ==
    /\ qc_result # <<>>
    /\ RunningScore(qc_content, qc_responses, settings) < 0
    /\ qc_result[1].score = 0

\* C5: a retry whose lookup found the job `completed` or `started` has
\* ended raising the invalid-state error, having called nothing but the
\* lookup: no collaborator, no save, no job of its own.
C5_RetryRejectsNonFailed ==
    \A i \in Runs :
        (run[i].kind = "retry" /\ run[i].seen_status \in {"completed", "started"}) =>
            /\ Ended(i)
            /\ run[i].outcome = "raised"
            /\ run[i].exc = InvalidStateDesc
            /\ run[i].calls = <<"get_job">>
            /\ ~HasJob(i)

\* a retry of a job that another invocation has stored as `started`
C5_Witness ==
    \E i \in Runs :
        /\ run[i].kind = "retry"
        /\ run[i].seen_status = "started"
        /\ run[i].retry_of \in DOMAIN store
        /\ run[i].exc = InvalidStateDesc

\* C6: a retry whose lookup found the job `failed` runs the publish workflow
\* for that job's topic with requested mode Draft, under a job id that is
\* new: different from the retried id and from every other invocation's.
\* Its content's mode is Draft and a RemotePost it builds has status `draft`.
C6_RetryRunsDraftWorkflow ==
    \A i \in Runs :
        (run[i].kind = "retry" /\ run[i].seen_status = "failed") =>
            /\ HasJob(i)
            /\ run[i].pc # "idle"
            /\ run[i].topic = store[run[i].retry_of].topic
            /\ run[i].job[1].topic = store[run[i].retry_of].topic
            /\ run[i].req_mode = "draft"
            /\ JobIdOf(i) # run[i].retry_of
            /\ \A j \in Runs : (j # i /\ HasJob(j)) => JobIdOf(j) # JobIdOf(i)
            /\ run[i].content # <<>> => run[i].content[1].schedule.mode = "draft"
            /\ run[i].wp_post # <<>> => run[i].wp_post[1].status = "draft"

\* a retry of a failed job that ran the workflow up to the construction of
\* the RemotePost and has ended
C6_Witness ==
    \E i \in Runs :
        /\ run[i].kind = "retry"
        /\ run[i].seen_status = "failed"
        /\ run[i].original = AttributeErrorDesc
        /\ Ended(i)

JobRecordCases(row) ==
    {c \in {"completed", "failed", "started"} :
        \/ c = "completed" /\ row.status = "completed" /\ row.completed_at # NoTime
        \/ c = "failed" /\ row.status = "failed" /\ row.error_message # NoneStr
        \/ c = "started" /\ row.status = "started" /\ row.completed_at = NoTime
                         /\ row.error_message = NoneStr}

C8_JobRecordInvariant ==
    \A id \in DOMAIN store : Cardinality(JobRecordCases(store[id])) = 1

\* a store holding a failed record and a started one
C8_Witness ==
    \E a, b \in DOMAIN store :
        /\ store[a].status = "failed"
        /\ store[a].error_message # NoneStr
        /\ store[b].status = "started"

\* C9: an ended workflow that got past its initial save has issued exactly
\* two save_job calls, and a running one at most two.
C9_TwoSaves ==
    \A i \in Runs :
        (IsWorkflow(i) /\ PastInitialSave(i)) =>
            /\ Count(run[i].calls, "save_job") <= 2
            /\ Ended(i) => Count(run[i].calls, "save_job") = 2

\* a workflow that failed after taxonomy resolution and has ended
C9_Witness ==
    \E i \in Runs :
        /\ Ended(i)
        /\ run[i].original = AttributeErrorDesc
        /\ Count(run[i].calls, "save_job") = 2

\* C10: an ended run with requested mode Publish in which no collaborator or
\* store call failed and the gate passed returned a success result with
\* status `publish`, the URL {base url}/{slug} and the gate's quality
\* fields, and its stored job is `completed` with the remote post id.
C10_PublishSucceeds ==
    \A i \in Runs :
        (/\ Ended(i) /\ run[i].kind = "publish" /\ run[i].req_mode = "publish"
         /\ run[i].faults = 0 /\ GatePassed(i)) =>
            /\ run[i].outcome = "returned"
            /\ run[i].result # <<>>
            /\ run[i].result[1].status = "publish"
            /\ run[i].result[1].url =
                 settings.wordpress_url \o "/" \o run[i].content[1].slug
            /\ run[i].result[1].quality_passed = run[i].quality_result[1].passed
            /\ run[i].result[1].quality_score = run[i].quality_result[1].score
            /\ run[i].result[1].quality_issues = run[i].quality_result[1].issues
            /\ store[JobIdOf(i)].status = "completed"
            /\ store[JobIdOf(i)].wp_post_id = run[i].result[1].wp_post_id

\* the names of a sequence of entities, position by position
NamesOf(entities) == [k \in 1..Len(entities) |-> entities[k].name]

\* the names of a list that no fetched entity carries, in the list's order
AbsentNames(names, fetched) ==
    SelectSeq(names, LAMBDA n : \A k \in 1..Len(fetched) : fetched[k].name # n)

\* the names of the creation calls an invocation has issued for a kind
CreatedNames(i, kind) ==
    LET mine == SelectSeq(run[i].created, LAMBDA c : c.kind = kind) IN
    [k \in 1..Len(mine) |-> mine[k].name]

\* tag resolution has returned: the code after it ran (with no image asked,
\* that is the construction of the post)
TagsResolved(i) ==
    run[i].pc = "upload_media" \/ run[i].original = AttributeErrorDesc

\* a resolver that went through the first n names of its input: it holds
\* one entity per position, named as the input, a fetched entity where the
\* name was fetched; and it issued one creation call per position whose
\* name was not fetched, in input order, repeated names included
ResolvedPrefix(i, kind, names, entities, n) ==
    /\ NamesOf(entities) = SubSeq(names, 1, n)
    /\ CreatedNames(i, kind) = AbsentNames(SubSeq(names, 1, n), run[i].existing)
    /\ \A k \in 1..n :
          (\E j \in 1..Len(run[i].existing) : run[i].existing[j].name = names[k])
          => (\E j \in 1..Len(run[i].existing) : run[i].existing[j] = entities[k])

\* C11: the resolver returns one entity per input position in input order
\* and issues its creation calls in input order for the positions whose
\* name is absent from the fetched list, without deduplication; this holds
\* at each creation call for the positions before it and at the return for
\* the whole input, for categories and for tags.
C11_ResolutionOrder ==
    \A i \in Runs :
        LET f == run[i] IN
        /\ f.pc = "create_category" =>
              ResolvedPrefix(i, "category", f.content[1].categories,
                             f.wp_categories, f.k - 1)
        /\ f.pc = "get_tags" =>
              ResolvedPrefix(i, "category", f.content[1].categories,
                             f.wp_categories, Len(f.content[1].categories))
        /\ f.pc = "create_tag" =>
              ResolvedPrefix(i, "tag", f.content[1].tags, f.wp_tags, f.k - 1)
        /\ TagsResolved(i) =>
              ResolvedPrefix(i, "tag", f.content[1].tags, f.wp_tags,
                             Len(f.content[1].tags))

\* names [B, A, B] with neither on the remote: creation calls B, A, B and
\* three entities returned, the first and the third distinct entities
C11_Witness ==
    \E i \in Runs :
        /\ run[i].pc = "get_tags"
        /\ run[i].existing = <<>>
        /\ run[i].content[1].categories = <<"B", "A", "B">>
        /\ CreatedNames(i, "category") = <<"B", "A", "B">>
        /\ NamesOf(run[i].wp_categories) = <<"B", "A", "B">>
        /\ run[i].wp_categories[1] # run[i].wp_categories[3]

\* what check_quality debits apart from the word-count check
OtherDebits(content, responses, cfg) ==
    SpellingCheck(responses, cfg).debit + GrammarCheck(responses).debit
    + PlagiarismCheck(responses, cfg).debit + LinkCheck(responses).debit
    + ExcerptCheck(content).debit + SlugCheck(content).debit

\* C12: every evaluation records exactly one 'too short' issue and debits
\* 20 iff the word count is below min_word_count, exactly one 'too long'
\* issue and debits 10 iff it is above max_word_count, and records no
\* word-count issue and debits nothing otherwise.
C12_WordCountCheck ==
    \A n \in 1..Len(qc_result) :
        LET word_count == _count_words(qc_content.content_html)
            short == word_count < settings.min_word_count
            long == word_count > settings.max_word_count
            debit == IF short THEN Pts(20) ELSE IF long THEN Pts(10) ELSE 0
        IN  /\ Count(qc_result[n].issues, "too_short") = (IF short THEN 1 ELSE 0)
            /\ Count(qc_result[n].issues, "too_long") = (IF long THEN 1 ELSE 0)
            /\ qc_result[n].score =
                  Max(0, Pts(100) - debit
                         - OtherDebits(qc_content, qc_responses, settings))

\* a body of min_word_count - 1 words and nothing else to report: one
\* 'too short' issue and a score of 80
C12_Witness ==
    /\ qc_result # <<>>
    /\ _count_words(qc_content.content_html) = settings.min_word_count - 1
    /\ qc_result[1].issues = <<"too_short">>
    /\ qc_result[1].score = Pts(80)

\* a body of exactly min_word_count words and nothing else to report: no
\* issue and a score of 100
C12_WitnessAtMinimum ==
    /\ qc_result # <<>>
    /\ _count_words(qc_content.content_html) = settings.min_word_count
    /\ qc_result[1].issues = <<>>
    /\ qc_result[1].score = Pts(100)

\* Publish->publish, Schedule->future, Draft->draft
StatusImage(mode) ==
    CASE mode = "publish" -> "publish"
      [] mode = "schedule" -> "future"
      [] mode = "draft" -> "draft"

\* C14: in every run whose gate passed, the status computed for the
\* RemotePost, and the status of the RemotePost built for create_post, is
\* the image of the requested mode under Publish->publish,
\* Schedule->future, Draft->draft; _get_wp_status is that mapping; and no
\* post on the remote has status `private`.
C14_StatusMapping ==
    /\ \A mode \in Modes : _get_wp_status(mode) = StatusImage(mode)
    /\ \A i \in Runs :
          (IsWorkflow(i) /\ GatePassed(i)) =>
            /\ run[i].wp_status # "none" =>
                  run[i].wp_status = StatusImage(run[i].req_mode)
            /\ run[i].wp_post # <<>> =>
                  run[i].wp_post[1].status = StatusImage(run[i].req_mode)
    /\ \A k \in 1..Len(wp.posts) : wp.posts[k].status # "private"

\* a run requested with mode Publish whose gate passed and which computed
\* the status of its RemotePost
C14_Witness ==
    \E i \in Runs :
        /\ run[i].kind = "publish"
        /\ run[i].req_mode = "publish"
        /\ GatePassed(i)
        /\ run[i].wp_status = "publish"

\* whether a call occurs among the first n calls of a sequence
CalledBefore(calls, call, n) == \E k \in 1..(n - 1) : calls[k] = call

\* C15: a run calls create_post at most once; when it does, it has called
\* generate_content, check_quality, get_categories, get_tags and (when the
\* content has a featured image) upload_media before; and a run in which
\* one of the steps before create_post failed has not called create_post.
C15_CreatePostLastAndSingle ==
    \A i \in Runs :
        LET calls == run[i].calls
            at == IndexOf(calls, "create_post", 1)
        IN  /\ Count(calls, "create_post") <= 1
            /\ at > 0 =>
                  /\ \A c \in {"generate_content", "check_quality",
                                "get_categories", "get_tags"} :
                        CalledBefore(calls, c, at)
                  /\ FirstFeatured(run[i].content[1].images) > 0 =>
                        CalledBefore(calls, "upload_media", at)
            /\ (run[i].original \notin {NoneStr, "create_post failed", StoreErrorDesc}) =>
                  Count(calls, "create_post") = 0
            /\ Len(wp.posts) <= Cardinality({j \in Runs : Count(run[j].calls, "create_post") > 0})

\* a run whose media upload failed has ended without a create_post call
C15_Witness ==
    \E i \in Runs :
        /\ Ended(i)
        /\ run[i].original = "upload_media failed"
        /\ Count(run[i].calls, "create_post") = 0
        /\ wp.posts = <<>>

\* C16: an ended publish run whose gate failed and in which no call failed
\* returned a success result carrying passed = false and the gate's issue
\* list, and its stored job is `completed`.
C16_GateFailureStillCompletes ==
    \A i \in Runs :
        (/\ Ended(i) /\ run[i].kind = "publish"
         /\ run[i].faults = 0 /\ GateFailed(i)) =>
            /\ run[i].outcome = "returned"
            /\ run[i].result # <<>>
            /\ run[i].result[1].quality_passed = FALSE
            /\ run[i].result[1].quality_issues = run[i].quality_result[1].issues
            /\ store[JobIdOf(i)].status = "completed"

\* the calls a workflow issues to the CMS
CmsCalls ==
    {"get_categories", "create_category", "get_tags", "create_tag",
     "upload_media", "create_post"}

SubCheckerFailed(i) == IsWorkflow(i) /\ run[i].sub_raised # "none"

\* a sub-checker raised: the evaluation returned no result, the run is in
\* the except clause or past it with the sub-checker's failure as the
\* one caught, and it has issued no call to the CMS
SubCheckerFailureStopsRun(i) ==
    /\ run[i].quality_result = <<>>
    /\ run[i].original = run[i].sub_raised \o " failed"
    /\ run[i].pc \in {"save_failed", "done"}
    /\ \A k \in 1..Len(run[i].calls) : run[i].calls[k] \notin CmsCalls

SavedRows == [id \in DOMAIN saved |-> JobRow(saved[id].job)]

Returned(op) == query.op = op /\ query.pc = "done"

\* C18: after any sequence of saves the table holds one row per saved id
\* and no other, get_job of a saved id is exactly the job last saved under
\* it, every field included, and a get_job call returned that job (or
\* nothing for an id never saved).
C18_UpsertLastSaveWins ==
    /\ DOMAIN store = DOMAIN saved
    /\ \A id \in DOMAIN saved : get_job(store, id) = <<saved[id].job>>
    /\ Returned("get_job") =>
          query.result = (IF query.job_id \in DOMAIN saved
                          THEN <<saved[query.job_id].job>> ELSE <<>>)

\* get_job returned a `started` job whose save replaced a row with columns
\* set: completed_at, wp_post_id, error_message and content come back unset
C18_Witness ==
    /\ Returned("get_job")
    /\ query.job_id \in DOMAIN saved
    /\ saved[query.job_id].reset
    /\ query.result # <<>>
    /\ query.result[1].status = "started"
    /\ query.result[1].completed_at = NoTime
    /\ query.result[1].wp_post_id = NoId
    /\ query.result[1].error_message = NoneStr
    /\ query.result[1].content = <<>>

\* whether a stored job passes the filter of the query that returned
PassesFilter(id) == query.status # NoneStr => store[id].status = query.status

\* C19: get_recent_jobs returned at most `limit` jobs (none for a limit
\* below 0), by created_at descending, all of the filter's status when a filter was given, and no
\* job passing the filter that it left out is newer than one it returned.
C19_ListRecent ==
    Returned("get_recent_jobs") =>
        LET rows == query.result
            ids == {rows[k].id : k \in 1..Len(rows)}
        IN  /\ Len(rows) <= Max(query.limit, 0)
            /\ \A a, b \in 1..Len(rows) :
                  a < b => rows[a].created_at >= rows[b].created_at
            /\ \A k \in 1..Len(rows) :
                  query.status # NoneStr => rows[k].status = query.status
            /\ \A id \in DOMAIN store :
                  (PassesFilter(id) /\ id \notin ids) =>
                    \A k \in 1..Len(rows) :
                        store[id].created_at <= rows[k].created_at

RECURSIVE SumOf(_)
\* the sum of the values of a dict
SumOf(d) ==
    IF DOMAIN d = {} THEN 0
    ELSE LET key == CHOOSE k \in DOMAIN d : TRUE IN
         d[key] + SumOf([k \in DOMAIN d \ {key} |-> d[k]])

CompletedCount(stats) == dict_get(stats.status_counts, "completed", 0)

\* successRate = completedCount / total * 100, or 0 for an empty table
RateIsCompletedShare(stats) ==
    stats.success_rate =
        (IF stats.total_jobs > 0
         THEN [num |-> CompletedCount(stats) * 100, den |-> stats.total_jobs]
         ELSE [num |-> 0, den |-> 1])

\* C20 as claimed: get_statistics returned total equal to the number of
\* rows and to the sum of the per-status counts, successRate equal to
\* completedCount/total*100 (0 for an empty table), and the table is as the
\* saves left it.
C20_StatisticsOfStore ==
    Returned("get_statistics") =>
        LET stats == query.result[1] IN
        /\ stats.total_jobs = Cardinality(DOMAIN store)
        /\ stats.total_jobs = SumOf(stats.status_counts)
        /\ RateIsCompletedShare(stats)
        /\ store = SavedRows

\* C20 as amended: get_statistics returned successRate equal to
\* completedCount/total*100 for the counts it read (0 when its total is 0),
\* and the table is as the saves left it; when no save committed between
\* its first SELECT and its return, total is the number of rows and the sum
\* of the per-status counts, which are the counts of the table.
C20_StatisticsWhenUndisturbed ==
    Returned("get_statistics") =>
        LET stats == query.result[1] IN
        /\ RateIsCompletedShare(stats)
        /\ stats.success_rate.den > 0
        /\ store = SavedRows
        /\ ~query.interleaved =>
              /\ stats.total_jobs = Cardinality(DOMAIN store)
              /\ stats.total_jobs = SumOf(stats.status_counts)
              /\ stats.status_counts = status_counts(store)

\* statistics of a table of two jobs, one of them completed: rate 100/2
C20_Witness ==
    /\ Returned("get_statistics")
    /\ ~query.interleaved
    /\ query.result[1].total_jobs = 2
    /\ CompletedCount(query.result[1]) = 1
    /\ query.result[1].success_rate = [num |-> 100, den |-> 2]

\* statistics of the empty table: total 0 and rate 0
C20_WitnessEmpty ==
    /\ Returned("get_statistics")
    /\ store = <<>>
    /\ query.result[1].total_jobs = 0
    /\ query.result[1].success_rate = [num |-> 0, den |-> 1]

(***************************************************************************)
(* Concurrent invocations.                                                 *)
(***************************************************************************)
\* the initial save of the invocation succeeded
InitialSaveDone(i) ==
    /\ Count(run[i].calls, "save_job") > 0
    /\ ~(run[i].pc = "done" /\ Count(run[i].calls, "save_job") = 1
                            /\ run[i].last_save = "failed")

\* the row the invocation's own saves leave in the table: the job as it
\* stands once its last save succeeded, the job as first built until then
OwnRow(i) ==
    LET job == run[i].job[1] IN
    IF run[i].pc = "done" /\ run[i].last_save = "ok"
    THEN JobRow(job)
    ELSE JobRow(GenerationJob(job.id, job.topic, job.created_at, job.scheduled_at))

\* C21: concurrent publish invocations work on distinct job ids, and in
\* every interleaving the stored record of each job is exactly what its own
\* invocation saved: absent until its initial save succeeded, `started`
\* from then on, and its own final status and error once its last save
\* succeeded; no other invocation's save replaces or removes it.
C21_IndependentJobs ==
    /\ \A i, j \in DOMAIN run :
          (i # j /\ HasJob(i) /\ HasJob(j)) => JobIdOf(i) # JobIdOf(j)
    /\ \A i \in DOMAIN run :
          HasJob(i) =>
             IF InitialSaveDone(i)
             THEN /\ JobIdOf(i) \in DOMAIN store
                  /\ store[JobIdOf(i)] = OwnRow(i)
             ELSE JobIdOf(i) \notin DOMAIN store

\* two invocations on one table that ended differently: one recorded as
\* failed at generation, the other left `started` because its last save
\* failed after the post could not be built
C21_Witness ==
    \E i, j \in DOMAIN run :
        /\ i # j
        /\ Ended(i) /\ Ended(j)
        /\ InitialSaveDone(i) /\ InitialSaveDone(j)
        /\ store[JobIdOf(i)].status = "failed"
        /\ store[JobIdOf(i)].error_message = "generate_content failed"
        /\ run[j].original = AttributeErrorDesc
        /\ run[j].last_save = "failed"
        /\ store[JobIdOf(j)].status = "started"

\* the names of the entities of a list
NameSet(entities) == {entities[k].name : k \in 1..Len(entities)}

\* `existing` of the invocation is the list it fetched for this kind
Fetched(i, kind) ==
    LET tags == /\ Count(run[i].calls, "get_tags") > 0
                /\ run[i].original # "get_tags failed"
    IN  IF kind = "tag" THEN tags
        ELSE /\ Count(run[i].calls, "get_categories") > 0
             /\ run[i].original # "get_categories failed"
             /\ ~tags

\* the names the invocation's loop over this kind has gone through
NamesPassed(i, kind) ==
    LET names == IF kind = "category" THEN run[i].content[1].categories
                 ELSE run[i].content[1].tags
    IN  {names[p] : p \in 1..Min(run[i].k - 1, Len(names))}

\* C22: when two concurrent invocations both fetched a list that lacks a
\* name both ask for (each fetched before the other created it), each one
\* issues a creation call for that name once its loop reaches it, whatever
\* the other has created in the meantime: the name is requested twice.
C22_TaxonomyRace ==
    \A i, j \in DOMAIN run : \A kind \in {"category", "tag"} :
        (i # j /\ Fetched(i, kind) /\ Fetched(j, kind)) =>
            \A n \in NamesPassed(i, kind) \cap NamesPassed(j, kind) :
                (n \notin NameSet(run[i].existing) /\ n \notin NameSet(run[j].existing))
                => /\ Count(CreatedNames(i, kind), n) > 0
                   /\ Count(CreatedNames(j, kind), n) > 0

\* two invocations fetched the empty category list, then both created the
\* category AI: the remote holds it twice
C22_Witness ==
    \E i, j \in DOMAIN run :
        /\ i # j
        /\ Count(CreatedNames(i, "category"), "AI") > 0
        /\ Count(CreatedNames(j, "category"), "AI") > 0
        /\ Cardinality({k \in 1..Len(wp.categories) : wp.categories[k].name = "AI"}) = 2

UnusableReply ==
    /\ gen.seo_meta # <<>>
    /\ gen.fell_back \/ ~HasSeoKeys(gen.seo_meta[1])

FromDefaultMetadata ==
    /\ gen.pc = "returned"
    /\ gen.result[1].excerpt = CannedExcerpt(gen.topic)
    /\ gen.result[1].slug = slugify(gen.topic)

\* C24 as claimed: whenever the optimizer's reply cannot be turned into
\* usable metadata, generate_content does not raise and returns a
\* PostContent with the canned excerpt and the slugified topic.
C24_MalformedReplyNeverRaises ==
    UnusableReply => FromDefaultMetadata

\* C24 as amended: whenever the optimizer's reply is not parseable JSON,
\* generate_content does not raise and returns a PostContent with the
\* canned excerpt and the slugified topic; a reply that parses but lacks
\* the excerpt or the slug makes generate_content raise.
C24_FallbackOnParseFailure ==
    gen.seo_meta # <<>> =>
        /\ gen.fell_back => FromDefaultMetadata
        /\ (~gen.fell_back /\ ~HasSeoKeys(gen.seo_meta[1])) =>
              /\ gen.pc = "raised"
              /\ gen.exc = "KeyError"
              /\ gen.result = <<>>

\* a reply that is not JSON led to a PostContent from the default metadata
C24_Witness ==
    /\ gen.fell_back
    /\ gen.pc = "returned"
    /\ gen.result[1].slug = "other-topic"
    /\ gen.result[1].excerpt = CannedExcerpt("Other Topic")

(***************************************************************************)
(* The order of the initial save, and the end of every workflow.           *)
(***************************************************************************)
\* the generation, image, quality and CMS collaborators
Collaborators ==
    {"generate_content", "create_featured_image", "check_quality"} \cup CmsCalls

\* the positions of the invocation's calls to collaborators
CollaboratorCalls(i) ==
    {k \in 1..Len(run[i].calls) : run[i].calls[k] \in Collaborators}

\* C25: an invocation that has called any generation, image, quality or
\* CMS collaborator made a save_job call before the first such call, and
\* that save persisted its job record; an invocation that ended without
\* its initial save having succeeded called none of them.
C25_InitialSaveFirst ==
    \A i \in Runs :
        /\ CollaboratorCalls(i) # {} =>
              /\ HasJob(i)
              /\ JobIdOf(i) \in DOMAIN store
              /\ \E s \in 1..Len(run[i].calls) :
                    /\ run[i].calls[s] = "save_job"
                    /\ \A k \in CollaboratorCalls(i) : s < k
        /\ (Ended(i) /\ ~InitialSaveDone(i)) => CollaboratorCalls(i) = {}

\* a publish invocation whose record is stored as `started` and which has
\* since called the generator, its first collaborator
C25_Witness ==
    \E i \in Runs :
        /\ run[i].kind = "publish"
        /\ run[i].calls = <<"save_job", "generate_content">>
        /\ run[i].pc = "quality"
        /\ store[JobIdOf(i)].status = "started"

\* a publish invocation whose initial save failed: it ended there
C25_WitnessSaveFailed ==
    \E i \in Runs :
        /\ run[i].kind = "publish"
        /\ Ended(i)
        /\ run[i].calls = <<"save_job">>
        /\ run[i].exc = StoreErrorDesc
        /\ JobIdOf(i) \notin DOMAIN store

\* the invocation's initial save was called and raised
InitialSaveFailed(i) ==
    /\ Ended(i)
    /\ Count(run[i].calls, "save_job") = 1
    /\ run[i].last_save = "failed"

\* C26: every publish invocation that is past its initial save, unless
\* that save was rejected by the store, has persisted a job record whose
\* scheduled_at is the requested timestamp when the requested mode is
\* Schedule and is absent when the mode is Draft or Publish.
C26_InitialSaveScheduledAt ==
    \A i \in Runs :
        (/\ run[i].kind = "publish"
         /\ run[i].pc \notin {"idle", "save_started"}
         /\ ~InitialSaveFailed(i)) =>
            /\ HasJob(i)
            /\ JobIdOf(i) \in DOMAIN store
            /\ store[JobIdOf(i)].scheduled_at =
                  IF run[i].req_mode = "schedule"
                  THEN isoformat(run[i].schedule_info.scheduled_at)
                  ELSE NoTime

\* the job record of the invocation is persisted and final, or the
\* invocation ended on a save_job call that raised
FinalOrSaveFailed(i) ==
    /\ HasJob(i)
    /\ JobIdOf(i) \in DOMAIN store
    /\ \/ store[JobIdOf(i)].status \in {"completed", "failed"}
       \/ Ended(i) /\ run[i].last_save = "failed" /\ run[i].exc = StoreErrorDesc

Marked(images) == {k \in 1..Len(images) : images[k].use_as_featured}

\* C28: an invocation issues at most one upload_media call. When no image
\* of content.images is marked use_as_featured it issues none, and the
\* featured-media id for the post stays unset. When the upload returned,
\* the file uploaded is that of the first marked image in list order, the
\* returned media id is recorded on that descriptor and is the
\* featured-media id handed to the post, and every other image has no
\* media id.
C28_FeaturedUpload ==
    \A i \in Runs :
        LET f == run[i]
            images == f.content[1].images
        IN
        /\ Count(f.calls, "upload_media") <= 1
        /\ (f.content # <<>> /\ Marked(images) = {}) =>
              /\ Count(f.calls, "upload_media") = 0
              /\ f.featured_media_id = NoId
        /\ f.featured_media_id = NoId =>
              (f.content # <<>> => \A k \in 1..Len(images) : images[k].wp_media_id = NoId)
        /\ f.featured_media_id # NoId =>
              \E at \in Marked(images) :
                 /\ \A j \in Marked(images) : at <= j
                 /\ wp.media[f.featured_media_id] = images[at].path
                 /\ images[at].wp_media_id = f.featured_media_id
                 /\ \A j \in 1..Len(images) : j # at => images[j].wp_media_id = NoId
        /\ f.wp_post # <<>> => f.wp_post[1].featured_media = f.featured_media_id

\* three images, the second and the third marked: the second was uploaded
\* and carries the media id, the third was left alone
C28_Witness ==
    \E i \in Runs :
        /\ run[i].content # <<>>
        /\ Marked(run[i].content[1].images) = {2, 3}
        /\ Count(run[i].calls, "upload_media") = 1
        /\ run[i].featured_media_id = 1
        /\ run[i].content[1].images[2].wp_media_id = 1
        /\ run[i].content[1].images[3].wp_media_id = NoId
        /\ wp.media = <<ImagePaths[2]>>
        /\ Ended(i)

\* no image marked among two: the run ended without an upload
C28_WitnessNoneMarked ==
    \E i \in Runs :
        /\ run[i].content # <<>>
        /\ Len(run[i].content[1].images) = 2
        /\ Marked(run[i].content[1].images) = {}
        /\ Ended(i)
        /\ Count(run[i].calls, "upload_media") = 0

\* C29: the image collaborator is called at most once per invocation. With
\* generate_image true, by the time the quality gate is called it has been
\* called exactly once, before the gate, and content.images is the one
\* image it returned. With generate_image false it is never called,
\* content.images stays empty, no upload_media call is issued and the
\* featured-media id for the post stays unset.
C29_ImageSwitch ==
    \A i \in Runs :
        LET f == run[i]
            images_made == Count(f.calls, "create_featured_image")
            gate == IndexOf(f.calls, "check_quality", 1)
        IN
        /\ images_made <= 1
        /\ (f.generate_image /\ gate > 0) =>
              /\ images_made = 1
              /\ IndexOf(f.calls, "create_featured_image", 1) < gate
              /\ Len(f.content[1].images) = 1
              /\ [f.content[1].images[1] EXCEPT !.wp_media_id = NoId]
                    = FeaturedImage(f.topic)
        /\ ~f.generate_image =>
              /\ images_made = 0
              /\ f.content # <<>> => Len(f.content[1].images) = 0
              /\ Count(f.calls, "upload_media") = 0
              /\ f.featured_media_id = NoId
              /\ f.wp_post # <<>> => f.wp_post[1].featured_media = NoId

\* an image was asked for: made once, attached, the gate passed, and the
\* image uploaded afterwards
C29_Witness ==
    \E i \in Runs :
        /\ run[i].kind = "publish"
        /\ run[i].generate_image
        /\ GatePassed(i)
        /\ Count(run[i].calls, "create_featured_image") = 1
        /\ Count(run[i].calls, "upload_media") = 1
        /\ run[i].content[1].images[1].wp_media_id = run[i].featured_media_id
        /\ run[i].featured_media_id # NoId

\* no image was asked for: the run went from generation to the gate and on
\* to the construction of the post without an image or an upload
C29_WitnessNoImage ==
    \E i \in Runs :
        /\ run[i].kind = "publish"
        /\ ~run[i].generate_image
        /\ run[i].original = AttributeErrorDesc
        /\ run[i].content[1].images = <<>>
        /\ Count(run[i].calls, "upload_media") = 0

(***************************************************************************)
(* The debit of each check.                                                *)
(***************************************************************************)
\* the debits of the six checks in the evaluation of qc_content
Debits ==
    [word_count |-> WordCountCheck(_count_words(qc_content.content_html), settings).debit,
     spelling |-> SpellingCheck(qc_responses, settings).debit,
     grammar |-> GrammarCheck(qc_responses).debit,
     plagiarism |-> PlagiarismCheck(qc_responses, settings).debit,
     links |-> LinkCheck(qc_responses).debit,
     seo |-> ExcerptCheck(qc_content).debit + SlugCheck(qc_content).debit]

\* C30 as claimed: in every evaluation no single check debits more than
\* 100 points, whatever number of findings it returned.
C30_NoCheckDebitsOver100 ==
    qc_result # <<>> =>
        \A check \in DOMAIN Debits : Debits[check] <= Pts(100)

\* C30 as amended: the word-count, plagiarism and SEO checks debit at most
\* 20, 50 and 8 points; the spelling, grammar and link checks debit 5, 3
\* and 10 points per finding without a cap, so one of them alone debits
\* more than 100 points exactly when it returns more than 20, 33 or 10
\* findings; the score returned is never below 0.
C30_DebitBounds ==
    qc_result # <<>> =>
        /\ Debits.word_count <= Pts(20)
        /\ Debits.plagiarism <= Pts(50)
        /\ Debits.seo <= Pts(8)
        /\ Debits.spelling > Pts(100) <=>
              (settings.grammar_check_enabled /\ qc_responses.spelling > 20)
        /\ Debits.grammar > Pts(100) <=> qc_responses.grammar > 33
        /\ Debits.links > Pts(100) <=> qc_responses.links > 10
        /\ qc_result[1].score >= 0

\* an evaluation in which the link check alone, with nothing else to
\* report, took the running score below 0; the score returned is 0
C30_Witness ==
    /\ qc_result # <<>>
    /\ qc_responses.links = ManyFindings
    /\ Debits.links > Pts(100)
    /\ \A check \in DOMAIN Debits \ {"links"} : Debits[check] = 0
    /\ RunningScore(qc_content, qc_responses, settings) < 0
    /\ qc_result[1].score = 0

(***************************************************************************)
(* The configuration of the checks, and the score.                         *)
(***************************************************************************)
\* the issues the word-count and SEO/slug checks record
AlwaysOnIssues == {"too_short", "too_long", "excerpt_short", "slug_long"}

IssueSet(result) == {result.issues[k] : k \in 1..Len(result.issues)}

CallSet(result) == {result.calls[k] : k \in 1..Len(result.calls)}

\* C31 as claimed: with every check the configuration can switch off
\* switched off, no sub-checker is called and only the word-count and
\* SEO/slug checks add issues.
C31_AllChecksSwitchOff ==
    (/\ qc_result # <<>>
     /\ ~settings.grammar_check_enabled
     /\ ~settings.plagiarism_check_enabled) =>
        /\ qc_result[1].calls = <<>>
        /\ IssueSet(qc_result[1]) \subseteq AlwaysOnIssues

\* C31 as amended: the spelling sub-checker is called iff
\* grammar_check_enabled and the plagiarism sub-checker iff
\* plagiarism_check_enabled, each whatever the other setting is; a check
\* switched off adds no issue; the grammar and link sub-checkers are called
\* in every evaluation, and with both settings off only they and the
\* word-count and SEO/slug checks add issues.
C31_TwoToggles ==
    qc_result # <<>> =>
        LET result == qc_result[1] IN
        /\ "check_spelling" \in CallSet(result) <=> settings.grammar_check_enabled
        /\ "check_plagiarism" \in CallSet(result) <=> settings.plagiarism_check_enabled
        /\ {"check_grammar", "check_links"} \subseteq CallSet(result)
        /\ ~settings.grammar_check_enabled => "spelling" \notin IssueSet(result)
        /\ ~settings.plagiarism_check_enabled => "similarity" \notin IssueSet(result)
        /\ (~settings.grammar_check_enabled /\ ~settings.plagiarism_check_enabled) =>
              /\ IssueSet(result) \subseteq AlwaysOnIssues \cup {"grammar", "broken_link"}
              /\ result.calls = <<"check_grammar", "check_links">>

\* both settings off, the spelling checker would have found something and
\* the similarity is 100: neither shows, the grammar finding does
C31_Witness ==
    /\ qc_result # <<>>
    /\ ~settings.grammar_check_enabled
    /\ ~settings.plagiarism_check_enabled
    /\ qc_responses.spelling > 0
    /\ qc_responses.plagiarism = 100
    /\ qc_responses.grammar = 1
    /\ qc_responses.links = 0
    /\ IssueSet(qc_result[1]) = {"grammar"}
    /\ qc_result[1].score = Pts(97)

\* spelling off and plagiarism on: the one does not switch off the other
C31_WitnessIndependent ==
    /\ qc_result # <<>>
    /\ ~settings.grammar_check_enabled
    /\ settings.plagiarism_check_enabled
    /\ qc_result[1].calls = <<"check_grammar", "check_plagiarism", "check_links">>
    /\ "similarity" \in IssueSet(qc_result[1])

\* C32: the score returned is max(0, min(100, 100 - W - 5*s - 3*g - P -
\* 10*b - E - L)) with W 20 below the minimum word count, 10 above the
\* maximum, else 0; s the spelling findings (0 when that check is off); g
\* the grammar findings; P similarity/2 when the plagiarism check is on and
\* the similarity is over 50; b the broken links; E 5 for an excerpt that
\* is empty or shorter than 50 characters; L 3 for a slug longer than 50
\* characters; and the issue list has one entry per debited finding.
\* Amounts are in half points, so P is the similarity itself.
C32_ScoreFormula ==
    qc_result # <<>> =>
        LET words == _count_words(qc_content.content_html)
            W == IF words < settings.min_word_count THEN 20
                 ELSE IF words > settings.max_word_count THEN 10 ELSE 0
            s == IF settings.grammar_check_enabled THEN qc_responses.spelling ELSE 0
            g == qc_responses.grammar
            P2 == IF settings.plagiarism_check_enabled /\ qc_responses.plagiarism > 50
                  THEN qc_responses.plagiarism ELSE 0
            b == qc_responses.links
            E == IF Len(qc_content.excerpt) < 50 THEN 5 ELSE 0
            L == IF Len(qc_content.slug) > 50 THEN 3 ELSE 0
            twice == 2 * (100 - W - 5 * s - 3 * g - 10 * b - E - L) - P2
            One(x) == IF x > 0 THEN 1 ELSE 0
        IN  /\ qc_result[1].score =
                  (IF twice < 0 THEN 0 ELSE IF twice > 200 THEN 200 ELSE twice)
            /\ Len(qc_result[1].issues) =
                  One(W) + s + g + One(P2) + b + One(E) + One(L)
            /\ Count(qc_result[1].issues, "spelling") = s
            /\ Count(qc_result[1].issues, "grammar") = g
            /\ Count(qc_result[1].issues, "broken_link") = b

\* every check debits: too short, two spelling and one grammar finding,
\* similarity 51, one broken link, short excerpt, long slug:
\* 100 - 20 - 10 - 3 - 25.5 - 10 - 5 - 3 = 23.5 and eight issues
C32_Witness ==
    /\ qc_result # <<>>
    /\ settings.grammar_check_enabled
    /\ settings.plagiarism_check_enabled
    /\ _count_words(qc_content.content_html) < settings.min_word_count
    /\ qc_responses.spelling = 2
    /\ qc_responses.grammar = 1
    /\ qc_responses.plagiarism = 51
    /\ qc_responses.links = 1
    /\ qc_content.excerpt = ShortExcerpt
    /\ qc_content.slug = LongSlug
    /\ qc_result[1].score = 47
    /\ Len(qc_result[1].issues) = 8

(***************************************************************************)
(* The taxonomy resolvers, call by call.                                   *)
(***************************************************************************)
\* one creation call per occurrence, among the first n names, of a name
\* that the fetched list lacks, and none for a name it holds
CreationPerOccurrence(i, kind, names, n) ==
    \A name \in {names[p] : p \in 1..Len(names)} :
        Count(CreatedNames(i, kind), name) =
            (IF name \in NameSet(run[i].existing) THEN 0
             ELSE Count(SubSeq(names, 1, n), name))

IsPrefix(list, whole) ==
    /\ Len(list) <= Len(whole)
    /\ list = SubSeq(whole, 1, Len(list))

\* C33: a resolver fetches the remote list once and before its creation
\* calls; a name in the fetched list gets no creation call and a name not
\* in it one creation call per occurrence; the list a resolver looks names
\* up in is the remote list of its own kind as fetched, with nothing from
\* the resolver that ran before it.
C33_LookupOrCreate ==
    \A i \in Runs :
        LET f == run[i] IN
        /\ Count(f.calls, "get_categories") <= 1
        /\ Count(f.calls, "get_tags") <= 1
        /\ \A p \in 1..Len(f.calls) :
              /\ f.calls[p] = "create_category" =>
                    /\ CalledBefore(f.calls, "get_categories", p)
                    /\ ~CalledBefore(f.calls, "get_tags", p)
              /\ f.calls[p] = "create_tag" => CalledBefore(f.calls, "get_tags", p)
        /\ Fetched(i, "category") => IsPrefix(f.existing, wp.categories)
        /\ Fetched(i, "tag") => IsPrefix(f.existing, wp.tags)
        /\ f.pc = "create_category" =>
              CreationPerOccurrence(i, "category", f.content[1].categories, f.k - 1)
        /\ f.pc = "get_tags" =>
              CreationPerOccurrence(i, "category", f.content[1].categories,
                                    Len(f.content[1].categories))
        /\ f.pc = "create_tag" =>
              CreationPerOccurrence(i, "tag", f.content[1].tags, f.k - 1)
        /\ TagsResolved(i) =>
              /\ CreationPerOccurrence(i, "tag", f.content[1].tags,
                                       Len(f.content[1].tags))
              /\ Count(f.calls, "get_categories") = 1
              /\ Count(f.calls, "get_tags") = 1

\* the remote held nothing; the category resolver created A, and the tag
\* resolver, having fetched an empty tag list, created the tag A as well
C33_Witness ==
    \E i \in Runs :
        /\ TagsResolved(i)
        /\ run[i].existing = <<>>
        /\ Count(CreatedNames(i, "category"), "A") = 1
        /\ CreatedNames(i, "tag") = <<"A">>
        /\ Len(wp.tags) = 1

\* the remote held category A: names [A, B, A] cost one creation call, B
C33_WitnessPresent ==
    \E i \in Runs :
        /\ run[i].pc = "get_tags"
        /\ run[i].content[1].categories = <<"A", "B", "A">>
        /\ NameSet(run[i].existing) = {"A"}
        /\ CreatedNames(i, "category") = <<"B">>

(***************************************************************************)
(* The command line and the schedule timestamp.                            *)
(***************************************************************************)
\* the call of create_and_publish_post was made with this ScheduleInfo
ReachedCore(i) == run[i].kind = "publish"

\* C34: no invocation started from the command line hands the core a
\* ScheduleInfo with mode Schedule and no timestamp.
C34_ScheduleHasTimestamp ==
    \A i \in Runs :
        (ReachedCore(i) /\ run[i].schedule_info.mode = "schedule")
        => run[i].schedule_info.scheduled_at # NoTime

(***************************************************************************)
(* What the orchestrator changes of the PostContent it was returned.       *)
(***************************************************************************)
\* the fields of PostContent other than the image list and the schedule
TextFields ==
    {"topic", "outline", "content_html", "excerpt", "slug", "categories", "tags"}

\* C35 as claimed: from the return of the pipeline on, every field of the
\* PostContent but schedule.mode is as the pipeline returned it, the image
\* list included.
C35_OnlyModeChanges ==
    \A i \in Runs :
        run[i].content # <<>> =>
            LET content == run[i].content[1]
                returned == run[i].returned[1]
            IN  /\ \A field \in TextFields : content[field] = returned[field]
                /\ content.images = returned.images
                /\ content.schedule.scheduled_at = returned.schedule.scheduled_at

\* C35 as amended: from the return of the pipeline on, topic, outline,
\* body, excerpt, slug, categories, tags and the schedule timestamp are as
\* the pipeline returned them; schedule.mode is the requested mode, or
\* Draft once the gate has failed; the image list is as returned (empty)
\* unless the image collaborator was called and returned, and then it is
\* the one featured image, which carries the media id once uploaded.
C35_OnlyModeAndImagesChange ==
    \A i \in Runs :
        run[i].content # <<>> =>
            LET content == run[i].content[1]
                returned == run[i].returned[1]
                attached == /\ run[i].generate_image
                            /\ Count(run[i].calls, "create_featured_image") = 1
                            /\ run[i].original # "create_featured_image failed"
            IN  /\ \A field \in TextFields : content[field] = returned[field]
                /\ content.schedule.scheduled_at = returned.schedule.scheduled_at
                /\ returned.schedule.mode = run[i].req_mode
                /\ content.schedule.mode =
                      (IF GateFailed(i) THEN "draft" ELSE run[i].req_mode)
                /\ returned.images = <<>>
                /\ IF attached
                   THEN /\ Len(content.images) = 1
                        /\ content.images[1] =
                              [FeaturedImage(run[i].topic) EXCEPT
                                 !.wp_media_id = run[i].featured_media_id]
                   ELSE content.images = returned.images

\* a run requested with mode Publish: the image was attached and uploaded,
\* the gate failed and forced Draft, and the run went on to the
\* construction of the RemotePost
C35_Witness ==
    \E i \in Runs :
        /\ run[i].req_mode = "publish"
        /\ GateFailed(i)
        /\ run[i].content[1].schedule.mode = "draft"
        /\ run[i].returned[1].schedule.mode = "publish"
        /\ Len(run[i].content[1].images) = 1
        /\ run[i].content[1].images[1].wp_media_id # NoId
        /\ run[i].original = AttributeErrorDesc

(***************************************************************************)
(* Retry: the unknown id, and the job retried.                             *)
(***************************************************************************)
\* C36: a retry whose lookup found no record under the id has ended
\* raising the not-found error, having called nothing but the lookup: no
\* collaborator, no save, no job of its own; the store still holds no
\* record under that id (unless another invocation was given the id for
\* its own job) and every record it holds is as some save wrote it or as
\* it was persisted before.
C36_RetryUnknownJob ==
    \A i \in Runs :
        (run[i].kind = "retry" /\ run[i].seen_status = "absent") =>
            /\ Ended(i)
            /\ run[i].outcome = "raised"
            /\ run[i].exc = NotFoundDesc
            /\ run[i].calls = <<"get_job">>
            /\ run[i].faults = 0
            /\ ~HasJob(i)
            /\ run[i].last_save = "none"
            /\ \/ get_job(store, run[i].retry_of) = <<>>
               \/ \E j \in Runs \ {i} : HasJob(j) /\ JobIdOf(j) = run[i].retry_of
            /\ \A id \in DOMAIN store :
                  \/ \E j \in Runs \ {i} : HasJob(j) /\ JobIdOf(j) = id
                  \/ \E before \in PersistedStores :
                        id \in DOMAIN before /\ store[id] = before[id]

\* a retry of id 2 with a store that holds a failed job under id 1 only
C36_Witness ==
    \E i \in Runs :
        /\ run[i].kind = "retry"
        /\ run[i].retry_of = 2
        /\ run[i].exc = NotFoundDesc
        /\ DOMAIN store = {1}
        /\ store[1].status = "failed"

\* the posts on the remote with the topic of invocation i as their title
PostsFor(i) == {k \in 1..Len(wp.posts) : wp.posts[k].title = run[i].topic}

\* C37: whenever the record stored for an invocation's job is `failed`, no
\* create_post call of that invocation has succeeded and the remote holds
\* no post for its topic; and the remote never holds more than one post
\* for the topic of a retry.
C37_FailedJobHasNoRemotePost ==
    \A i \in Runs :
        /\ (HasJob(i) /\ JobIdOf(i) \in DOMAIN store
                      /\ store[JobIdOf(i)].status = "failed") =>
              /\ run[i].created_post = <<>>
              /\ PostsFor(i) = {}
        /\ (run[i].kind = "retry" /\ run[i].seen_status = "failed") =>
              Cardinality(PostsFor(i)) <= 1

\* a run that got as far as the construction of the RemotePost, failed
\* there and is stored as failed; the remote holds its image and no post
C37_Witness ==
    \E i \in Runs :
        /\ Ended(i)
        /\ HasJob(i)
        /\ JobIdOf(i) \in DOMAIN store
        /\ store[JobIdOf(i)].status = "failed"
        /\ run[i].original = AttributeErrorDesc
        /\ Len(wp.media) = 1
        /\ wp.posts = <<>>

\* C38: every stored record with status `failed` has completed_at,
\* wp_post_id and content absent, and every stored record with status
\* `completed` has error_message absent and wp_post_id and content present.
C38_FailedRecordsCarryNoCompletionData ==
    \A id \in DOMAIN store :
        /\ store[id].status = "failed" =>
              /\ store[id].completed_at = NoTime
              /\ store[id].wp_post_id = NoId
              /\ store[id].content_json = <<>>
        /\ store[id].status = "completed" =>
              /\ store[id].error_message = NoneStr
              /\ store[id].wp_post_id # NoId
              /\ store[id].content_json # <<>>

\* a run that had its content generated and then failed: the stored
\* record is failed, with a message and without the content
C38_Witness ==
    \E i \in Runs :
        /\ Ended(i)
        /\ run[i].content # <<>>
        /\ JobIdOf(i) \in DOMAIN store
        /\ store[JobIdOf(i)].status = "failed"
        /\ store[JobIdOf(i)].error_message # NoneStr
        /\ store[JobIdOf(i)].content_json = <<>>

\* C39: a retry whose lookup found the job failed changes no field of the
\* record stored under the retried id, at no point of its run and however
\* the run ends: the record is as it was and a lookup of it still returns
\* status `failed`; each such retry, also of two running at the same time,
\* has a job of its own under an id that is neither the retried id nor
\* another retry's.
C39_RetryLeavesOriginal ==
    \A i \in DOMAIN run :
        (run[i].kind = "retry" /\ run[i].seen_status = "failed") =>
            /\ run[i].retry_of \in DOMAIN store
            /\ store[run[i].retry_of] = FailedJob
            /\ get_job(store, run[i].retry_of)[1].status = "failed"
            /\ HasJob(i)
            /\ JobIdOf(i) # run[i].retry_of
            /\ \A j \in DOMAIN run \ {i} : HasJob(j) => JobIdOf(j) # JobIdOf(i)
            /\ InitialSaveDone(i) =>
                  /\ JobIdOf(i) \in DOMAIN store
                  /\ store[JobIdOf(i)].topic = FailedJob.topic

\* two retries of job 1 in flight at the same time, each with its own
\* record stored as started, and the record of job 1 as it was
C39_Witness ==
    \E i, j \in DOMAIN run :
        /\ i # j
        /\ run[i].kind = "retry" /\ run[j].kind = "retry"
        /\ run[i].pc = "generate" /\ run[j].pc = "quality"
        /\ DOMAIN store = {1, JobIdOf(i), JobIdOf(j)}
        /\ store[JobIdOf(i)].status = "started"
        /\ store[JobIdOf(j)].status = "started"
        /\ store[1] = FailedJob

\* two retries of job 1 that have both ended: two new failed records, and
\* the record of job 1 still failed
C39_WitnessEnded ==
    \E i, j \in DOMAIN run :
        /\ i # j
        /\ run[i].kind = "retry" /\ run[j].kind = "retry"
        /\ Ended(i) /\ Ended(j)
        /\ HasJob(i) /\ HasJob(j)
        /\ DOMAIN store = {1, JobIdOf(i), JobIdOf(j)}
        /\ store[JobIdOf(i)].status = "failed"
        /\ store[JobIdOf(j)].status = "failed"
        /\ run[i].original = AttributeErrorDesc
        /\ store[1] = FailedJob

(***************************************************************************)
(* The override in a run requested with mode Schedule.                     *)
(***************************************************************************)
\* C40: a run requested with mode Schedule and a timestamp, in which no
\* collaborator call and no save failed, has had its gate evaluated once it
\* has ended; if the gate failed, the mode is Draft, the timestamp of the
\* schedule and the job's scheduled_at are the requested timestamp, and the
\* RemotePost built has status `draft` and the requested timestamp as date.
C40_OverrideKeepsTimestamp ==
    \A i \in Runs :
        (/\ run[i].kind = "publish"
         /\ run[i].req_mode = "schedule"
         /\ run[i].schedule_info.scheduled_at # NoTime
         /\ Ended(i)
         /\ run[i].faults = 0) =>
            /\ run[i].quality_result # <<>>
            /\ GateFailed(i) =>
                  /\ run[i].content[1].schedule.mode = "draft"
                  /\ run[i].content[1].schedule.scheduled_at =
                        run[i].schedule_info.scheduled_at
                  /\ run[i].job[1].scheduled_at = run[i].schedule_info.scheduled_at
                  /\ run[i].wp_post # <<>>
                  /\ run[i].wp_post[1].status = "draft"
                  /\ run[i].wp_post[1].date = run[i].schedule_info.scheduled_at

====
